---- MODULE Spec2Model ----
(***************************************************************************)
(* The industry research workflow of run_industry_research_report.py:      *)
(* four nodes (decision, search, generate-section, completion) wired into  *)
(* a flow, each node run as prep -> exec -> post over one shared dict.     *)
(*                                                                         *)
(* Python dicts are functions whose DOMAIN is the set of keys present, so  *)
(* dict.get(k, default) and "k in dict" are modelled literally.  YAML      *)
(* values whose Python type matters are tagged with a kind field.          *)
(* The module language has no non-ASCII strings: the Chinese literals of   *)
(* the source are written as ASCII stand-ins, each next to its original.   *)
(***************************************************************************)
EXTENDS Integers, Sequences, FiniteSets, TLC

VARIABLES
    node,        \* the node the flow is running: research/search/generate/complete
    phase,       \* prep / exec / post of that node, or done / error for the run
    shared,      \* the shared dict handed to every node
    prep_res,    \* what the last prep returned, as a record
    exec_res,    \* what the last exec returned, as a record (a list or a string
                 \* that an exec returns is the one field of its record)
    loop_count,  \* IndustryResearchFlow.exec's loop counter
    resp,        \* the last text call_llm returned to IndustryResearchFlow.exec
    last_action, \* what the last post returned; the result of a run that is done
    successors   \* node -> (action label -> next node), as wired before the run

vars == <<node, phase, shared, prep_res, exec_res, loop_count, resp, last_action,
          successors>>

-----------------------------------------------------------------------------
(* Bounds of the model (inputs of the environment, not of the program).    *)

\* the search results the model lets the context hold at most
MaxContext == 4

\* the longest response text handed to parse_yaml_response, in tokens
MaxResponse == 6

-----------------------------------------------------------------------------
(* Python dict helpers.                                                    *)

None == [kind |-> "none"]
Some(v) == [kind |-> "some", v |-> v]
EmptyDict == <<>>

Get(d, k, default) == IF k \in DOMAIN d THEN d[k] ELSE default

Put(d, k, v) == [x \in (DOMAIN d) \cup {k} |-> IF x = k THEN v ELSE d[x]]

\* tagged YAML values
Dict(d) == [kind |-> "dict", d |-> d]
List(items) == [kind |-> "list", items |-> items]
StrVal(words) == [kind |-> "str", s |-> words]
Null == [kind |-> "null"]
IntVal == [kind |-> "int"]

IsDict(v) == v.kind = "dict"
IsList(v) == v.kind = "list"

\* Python truthiness of a tagged value
Truthy(v) ==
    CASE v.kind = "dict" -> DOMAIN v.d # {}
      [] v.kind = "list" -> Len(v.items) > 0
      [] v.kind = "str"  -> Len(v.s) > 0
      [] v.kind = "null" -> FALSE
      [] OTHER           -> TRUE

SeqToSet(s) == {s[i] : i \in 1..Len(s)}

\* mutant: the names are read under a key the sections do not have
NamesOf_WrongKey(sections) ==
    [i \in 1..Len(sections) |-> Get(sections[i], "title", "")]

\* [s.get('name', '') for s in sections]
NamesOf(sections) == [i \in 1..Len(sections) |-> Get(sections[i], "name", "")]

\* what a statement evaluates to: a value, or a raised exception (an Exception
\* subclass)
Return(v) == [kind |-> "return", value |-> v]
Raise == [kind |-> "raise"]

\* mutant: the except clause re-raises
TryExcept_Reraise(r, fallback) == r

\* try: <r> except Exception: return fallback
TryExcept(r, fallback) ==
    IF r.kind = "raise" THEN Return(fallback) ELSE r

-----------------------------------------------------------------------------
(* Program constants.                                                      *)

\* max_loops = 10
max_loops == 10

\* the checklist of IndustryResearchFlow.exec:
\*   行业概述/行业概览, 市场规模分析, 竞争格局分析, 技术发展趋势,
\*   政策环境分析, 风险与挑战, 发展前景预测
important_sections ==
    << "IndustryOverview", "MarketSize", "Competition", "TechTrends",
       "Policy", "Risks", "Outlook" >>

\* '重点分析'
DefaultFocus == "KeyAnalysis"
\* "解析失败，默认完成"
ParseFailReason == "parse failed, complete by default"
\* "已达最大循环次数，自动完成。"
MaxLoopsReason == "max loops reached, complete"
\* '所有重要章节都已生成，自动完成。'
AllGeneratedReason == "all important sections generated, complete"
\* '章节信息格式错误，自动完成。'
BadSectionReason == "section format error, complete"
\* "错误章节"
ErrorSectionName == "ErrorSection"

\* mutant: no transition is declared for the label generate
Wiring_NoGenerate ==
    [ research |-> [search |-> "search", complete |-> "complete"],
      search   |-> [search_done |-> "research"],
      generate |-> [continue |-> "research"],
      complete |-> EmptyDict ]

\* the transitions declared by "research - "search" >> search" etc.
Wiring ==
    [ research |-> [search |-> "search", generate |-> "generate",
                    complete |-> "complete"],
      search   |-> [search_done |-> "research"],
      generate |-> [continue |-> "research"],
      complete |-> EmptyDict ]

-----------------------------------------------------------------------------
(* The environment: what the model, the search engine and the command line *)
(* can hand to the program.                                                *)

\* args.industry_name
Industry == "X"

\* section names the model asks for on its own: a checklist entry that is not
\* the first one, and a name that is not on the checklist
LLMSectionNames == {important_sections[2], "CustomTopic"}
LLMFocus == "Focus"
LLMReason == "because"

\* the section values of a decision
SectionPayloads ==
    {Dict([name |-> n, focus |-> LLMFocus]) : n \in LLMSectionNames}
    \cup { Dict(EmptyDict), Dict([focus |-> LLMFocus]), Null, IntVal,
           StrVal(<<>>), StrVal(<<"MarketSize">>), StrVal(<<"name", "MarketSize">>),
           List(<<>>),
           List(<<Dict([name |-> "MarketSize"]), Dict([name |-> "Risks"])>>),
           List(<<StrVal(<<"name">>)>>),
           List(<<StrVal(<<"name">>),
                  Dict([name |-> "CustomTopic", focus |-> LLMFocus])>>) }

\* the search_terms values of a decision
TermPayloads ==
    { List(<<>>), List(<<"t1", "t2">>), StrVal(<<"t1">>), Null }

\* the mappings a fenced block can parse to
DecisionMaps ==
    {[action |-> "search", reason |-> LLMReason, search_terms |-> t] :
        t \in TermPayloads}
    \cup {[action |-> "search", reason |-> LLMReason]}
    \cup {[action |-> "generate", reason |-> LLMReason, section |-> s] :
        s \in SectionPayloads}
    \cup {[action |-> "generate", reason |-> LLMReason]}
    \cup { [action |-> "complete", reason |-> LLMReason],
           [action |-> "other", reason |-> LLMReason],
           [action |-> "complete"],
           [reason |-> LLMReason],
           EmptyDict }

\* what the text inside a fence (or the whole text) parses to with
\* yaml.safe_load: a mapping, something else, or an error
Bodies ==
    {[kind |-> "map", m |-> m] : m \in DecisionMaps}
    \cup {[kind |-> "scalar"], [kind |-> "list"], [kind |-> "null"],
          [kind |-> "invalid"]}

WellFormedSearch ==
    [kind |-> "map",
     m |-> [action |-> "search", reason |-> LLMReason,
            search_terms |-> List(<<"t1", "t2">>)]]

\* the texts call_llm can return: a block fenced ```yaml, a block fenced ```
\* without a label, or text without a fence ("" is the latter, parsing to null)
Responses ==
    {[fence |-> "yaml", body |-> b] : b \in Bodies}
    \cup { [fence |-> "bare", body |-> WellFormedSearch],
           [fence |-> "none", body |-> WellFormedSearch],
           [fence |-> "none", body |-> [kind |-> "null"]] }

NoResp == [fence |-> "unset"]

\* the text call_llm returns for a section: "A", for one section also "B", and
\* for another also "", which is what call_llm returns when the call fails
LLMContents(name) ==
    CASE name = important_sections[6] -> {"A", "B"}
      [] name = "CustomTopic"         -> {"A", ""}
      [] OTHER                        -> {"A"}

\* what search_web returns for a term: a list of hits, possibly empty
SearchResults == {<<"hit">>, <<>>}

\* the results of the queries of one search node execution, one per term; the
\* bound of the model: only the first query of a run that has searched nothing
\* yet may find nothing
SearchOutcomes(search_terms, sh) ==
    {results \in [1..Len(search_terms) -> SearchResults] :
        \A i \in 1..Len(search_terms) :
            results[i] = <<>> => (i = 1 /\ Get(sh, "context", <<>>) = <<>>)}

-----------------------------------------------------------------------------
Init ==
    /\ node = "research"
    /\ phase = "prep"
    /\ shared = [industry |-> Industry, max_iterations |-> 10,
                 current_iteration |-> 0, force_refresh |-> FALSE]
    /\ prep_res = None
    /\ exec_res = None
    /\ loop_count = 0
    /\ resp = NoResp
    /\ last_action = None
    /\ successors = Wiring

-----------------------------------------------------------------------------
(* IndustryResearchFlow: the decision node.                                *)

\* mutant: a section without content does not count as generated
ResearchPrepResult_SkipsEmpty(sh) ==
    [ industry |-> sh["industry"],
      context |-> Get(sh, "context", <<>>),
      generated_section_names |->
          NamesOf(SelectSeq(Get(sh, "generated_sections", <<>>),
                            LAMBDA section : section.content # "")) ]

\* prep: (industry, context_str, generated_section_names, shared)
ResearchPrepResult(sh) ==
    [ industry |-> sh["industry"],
      context |-> Get(sh, "context", <<>>),
      generated_section_names |-> NamesOf(Get(sh, "generated_sections", <<>>)) ]

\* mutant: a parse failure gives the empty mapping
ParseResponse_EmptyOnFailure(r) ==
    IF r.fence = "yaml" /\ r.body.kind # "invalid"
    THEN r.body
    ELSE [kind |-> "map", m |-> EmptyDict]

\* mutant: text without any fence is parsed whole
ParseResponse_WholeText(r) ==
    IF r.fence \in {"yaml", "none"} /\ r.body.kind # "invalid"
    THEN r.body
    ELSE [kind |-> "map",
          m |-> [action |-> "complete", reason |-> ParseFailReason]]

\* mutant: text without a ```yaml fence is parsed as it is
ParseResponse_Lenient(r) ==
    IF r.body.kind # "invalid"
    THEN r.body
    ELSE [kind |-> "map",
          m |-> [action |-> "complete", reason |-> ParseFailReason]]

\* resp.split("```yaml")[1].split("```", 1)[0].strip() and yaml.safe_load, with
\* the except branch: a response without a ```yaml fence has no element [1],
\* text that is not YAML makes safe_load raise; both give the default result
ParseResponse(r) ==
    IF r.fence = "yaml" /\ r.body.kind # "invalid"
    THEN r.body
    ELSE [kind |-> "map",
          m |-> [action |-> "complete", reason |-> ParseFailReason]]

\* 'name' in section, for the Python types that support it
NameIn(section) ==
    CASE section.kind = "dict" -> "name" \in DOMAIN section.d
      [] section.kind = "list" ->
            \E i \in 1..Len(section.items) :
                /\ section.items[i].kind = "str"
                /\ section.items[i].s = <<"name">>
      [] section.kind = "str"  -> \E i \in 1..Len(section.s) : section.s[i] = "name"
      [] OTHER -> FALSE

\* mutant: the scan passes over the first entry that is not generated when
\* there is another one
FirstUngenerated_Second(names) ==
    LET missing == {i \in 1..Len(important_sections) :
                        important_sections[i] \notin SeqToSet(names)}
        rest == {i \in missing : \E j \in missing : j < i}
    IN  IF missing = {} THEN 0
        ELSE IF rest = {} THEN CHOOSE i \in missing : TRUE
        ELSE CHOOSE i \in rest : \A j \in rest : i <= j

\* mutant: the scan keeps the last entry that is not generated
FirstUngenerated_Last(names) ==
    LET missing == {i \in 1..Len(important_sections) :
                        important_sections[i] \notin SeqToSet(names)}
    IN  IF missing = {} THEN 0
        ELSE CHOOSE i \in missing : \A j \in missing : i >= j

\* the for/else scan of important_sections: the index of the first entry that is
\* not in generated_section_names, 0 when every entry is
FirstUngenerated(names) ==
    LET missing == {i \in 1..Len(important_sections) :
                        important_sections[i] \notin SeqToSet(names)}
    IN  IF missing = {} THEN 0
        ELSE CHOOSE i \in missing : \A j \in missing : i <= j

\* mutant: the substituted section keeps the focus the model gave
RepairGenerate_KeepFocus(result, names) ==
    LET section == Get(result, "section", Dict(EmptyDict)) IN
    IF IsDict(section) /\ "name" \in DOMAIN section.d
    THEN IF section.d.name \in SeqToSet(names)
         THEN LET i == FirstUngenerated(names) IN
              IF i # 0
              THEN Put(result, "section",
                       Dict([name |-> important_sections[i],
                             focus |-> Get(section.d, "focus", DefaultFocus)]))
              ELSE Put(Put(result, "action", "complete"),
                       "reason", AllGeneratedReason)
         ELSE result
    ELSE IF ~Truthy(section) \/ ~NameIn(section)
         THEN Put(Put(result, "action", "complete"), "reason", BadSectionReason)
         ELSE result

\* mutant: the for loop has no else branch
RepairGenerate_NoElse(result, names) ==
    LET section == Get(result, "section", Dict(EmptyDict)) IN
    IF IsDict(section) /\ "name" \in DOMAIN section.d
    THEN IF section.d.name \in SeqToSet(names)
         THEN LET i == FirstUngenerated(names) IN
              IF i # 0
              THEN Put(result, "section",
                       Dict([name |-> important_sections[i], focus |-> DefaultFocus]))
              ELSE result
         ELSE result
    ELSE IF ~Truthy(section) \/ ~NameIn(section)
         THEN Put(Put(result, "action", "complete"), "reason", BadSectionReason)
         ELSE result

\* the body of "if result['action'] == 'generate':"
RepairGenerate(result, names) ==
    LET section == Get(result, "section", Dict(EmptyDict)) IN
    IF IsDict(section) /\ "name" \in DOMAIN section.d
    THEN IF section.d.name \in SeqToSet(names)
         THEN LET i == FirstUngenerated(names) IN
              IF i # 0
              THEN Put(result, "section",
                       Dict([name |-> important_sections[i], focus |-> DefaultFocus]))
              ELSE Put(Put(result, "action", "complete"),
                       "reason", AllGeneratedReason)
         ELSE result
    ELSE IF ~Truthy(section) \/ ~NameIn(section)
         THEN Put(Put(result, "action", "complete"), "reason", BadSectionReason)
         ELSE result

\* the statements of one loop iteration that raise: result['action'] and
\* result['reason'] on a value that is no mapping or lacks the key, and
\* 'name' not in section on a truthy value that is no container
ExecRaises(v) ==
    \/ v.kind # "map"
    \/ "action" \notin DOMAIN v.m
    \/ "reason" \notin DOMAIN v.m
    \/ /\ v.m.action = "generate"
       /\ LET section == Get(v.m, "section", Dict(EmptyDict)) IN
          section.kind = "int"

\* the result of one loop iteration that does not raise
Decide(v, names) ==
    IF v.m.action = "generate" THEN RepairGenerate(v.m, names) ELSE v.m

\* mutant: a generate decision does not end the loop
LoopExits_NotOnGenerate(result) == result.action \in {"search", "complete"}

\* the three break tests that end the loop
LoopExits(result) == result.action \in {"search", "generate", "complete"}

\* whether nothing has been searched or generated yet
Fresh(sh) ==
    /\ Get(sh, "context", <<>>) = <<>>
    /\ Get(sh, "generated_sections", <<>>) = <<>>

\* the bounds of the model on the model's answers: a search decision carries no
\* more terms than the context has room for, and an action outside the
\* vocabulary is answered only before anything was searched or generated
Offered(sh) ==
    {r \in Responses :
        /\ (/\ r.fence = "yaml"
            /\ r.body.kind = "map"
            /\ "search_terms" \in DOMAIN r.body.m
            /\ IsList(r.body.m.search_terms))
           => Len(Get(sh, "context", <<>>)) + Len(r.body.m.search_terms.items)
                 <= MaxContext
        /\ (/\ r.fence = "yaml"
            /\ r.body.kind = "map"
            /\ "action" \in DOMAIN r.body.m
            /\ "reason" \in DOMAIN r.body.m
            /\ ~LoopExits(r.body.m))
           => Fresh(sh)}

\* what the OpenAI client does on one call: it returns a text, or it raises
LLMOutcomes(sh) ==
    {[kind |-> "text", text |-> r] : r \in Offered(sh)} \cup {[kind |-> "raise"]}

\* the text ""
EmptyText == [fence |-> "none", body |-> [kind |-> "null"]]

\* call_llm: the text the client returned, "" when the call raised
call_llm(outcome) ==
    IF outcome.kind = "raise" THEN EmptyText ELSE outcome.text

ResearchPrep ==
    /\ node = "research" /\ phase = "prep"
    /\ prep_res' = ResearchPrepResult(shared)
    /\ phase' = "exec"
    /\ loop_count' = 0
    /\ UNCHANGED <<node, shared, exec_res, resp, last_action, successors>>

\* "if loop_count > max_loops: return {...}"
ResearchExecCap ==
    /\ node = "research" /\ phase = "exec"
    /\ loop_count > max_loops
    /\ exec_res' = [action |-> "complete", reason |-> MaxLoopsReason]
    /\ phase' = "post"
    /\ UNCHANGED <<node, shared, prep_res, loop_count, resp, last_action, successors>>

\* one iteration of the while loop: one call_llm, parse, repair, break or loop,
\* the client doing one of the given outcomes
ResearchExecStep(outcomes) ==
    /\ node = "research" /\ phase = "exec"
    /\ ~(loop_count > max_loops)
    /\ \E outcome \in outcomes :
        LET r == call_llm(outcome)
            v == ParseResponse(r)
        IN
        /\ resp' = r
        /\ loop_count' = loop_count + 1
        /\ IF ExecRaises(v)
           THEN /\ phase' = "error"
                /\ UNCHANGED exec_res
           ELSE LET result == Decide(v, prep_res.generated_section_names) IN
                IF LoopExits(result)
                THEN /\ phase' = "post"
                     /\ exec_res' = result
                ELSE UNCHANGED <<phase, exec_res>>
    /\ UNCHANGED <<node, shared, prep_res, last_action, successors>>

ResearchExecIter == ResearchExecStep(LLMOutcomes(shared))

\* mutant: a search decision also clears the section to write
ResearchPostResult_ClearsSection(sh, res) ==
    LET action == res.action IN
    IF action = "search"
    THEN LET search_terms == Get(res, "search_terms", List(<<>>)) IN
         IF IsList(search_terms)
         THEN [label |-> action,
               shared |-> Put(Put(sh, "search_terms", search_terms.items),
                              "current_section", EmptyDict)]
         ELSE [label |-> "complete", shared |-> sh]
    ELSE IF action = "generate"
    THEN LET section == Get(res, "section", Dict(EmptyDict)) IN
         IF IsDict(section) /\ "name" \in DOMAIN section.d
         THEN [label |-> action, shared |-> Put(sh, "current_section", section.d)]
         ELSE [label |-> "complete", shared |-> sh]
    ELSE [label |-> action, shared |-> sh]

\* mutant: of a list of sections the first record with a name is taken, whether
\* it is generated or not
ResearchPostResult_ListFirst(sh, res) ==
    LET action == res.action IN
    IF action = "search"
    THEN LET search_terms == Get(res, "search_terms", List(<<>>)) IN
         IF IsList(search_terms)
         THEN [label |-> action, shared |-> Put(sh, "search_terms", search_terms.items)]
         ELSE [label |-> "complete", shared |-> sh]
    ELSE IF action = "generate"
    THEN LET section == Get(res, "section", Dict(EmptyDict)) IN
         IF IsDict(section) /\ "name" \in DOMAIN section.d
         THEN [label |-> action, shared |-> Put(sh, "current_section", section.d)]
         ELSE IF IsList(section) /\ Len(section.items) > 0
         THEN LET ok == {i \in 1..Len(section.items) :
                            /\ IsDict(section.items[i])
                            /\ "name" \in DOMAIN section.items[i].d}
              IN  IF ok # {}
                  THEN LET i == CHOOSE i \in ok : \A j \in ok : i <= j IN
                       [label |-> action,
                        shared |-> Put(sh, "current_section", section.items[i].d)]
                  ELSE [label |-> "complete", shared |-> sh]
         ELSE [label |-> "complete", shared |-> sh]
    ELSE [label |-> action, shared |-> sh]

\* mutant: search terms that are no list are passed over and the search node
\* runs all the same
ResearchPostResult_TermsIgnored(sh, res) ==
    LET action == res.action IN
    IF action = "search"
    THEN LET search_terms == Get(res, "search_terms", List(<<>>)) IN
         IF IsList(search_terms)
         THEN [label |-> action, shared |-> Put(sh, "search_terms", search_terms.items)]
         ELSE [label |-> action, shared |-> sh]
    ELSE IF action = "generate"
    THEN LET section == Get(res, "section", Dict(EmptyDict)) IN
         IF IsDict(section) /\ "name" \in DOMAIN section.d
         THEN [label |-> action, shared |-> Put(sh, "current_section", section.d)]
         ELSE IF IsList(section) /\ Len(section.items) > 0
         THEN LET generated_names == NamesOf(Get(sh, "generated_sections", <<>>))
                  ok == {i \in 1..Len(section.items) :
                            /\ IsDict(section.items[i])
                            /\ "name" \in DOMAIN section.items[i].d
                            /\ section.items[i].d.name \notin SeqToSet(generated_names)}
              IN  IF ok # {}
                  THEN LET i == CHOOSE i \in ok : \A j \in ok : i <= j IN
                       [label |-> action,
                        shared |-> Put(sh, "current_section", section.items[i].d)]
                  ELSE [label |-> "complete", shared |-> sh]
         ELSE [label |-> "complete", shared |-> sh]
    ELSE [label |-> action, shared |-> sh]

\* post: the action label it returns and the shared dict it leaves
ResearchPostResult(sh, res) ==
    LET action == res.action IN
    IF action = "search"
    THEN LET search_terms == Get(res, "search_terms", List(<<>>)) IN
         IF IsList(search_terms)
         THEN [label |-> action, shared |-> Put(sh, "search_terms", search_terms.items)]
         ELSE [label |-> "complete", shared |-> sh]
    ELSE IF action = "generate"
    THEN LET section == Get(res, "section", Dict(EmptyDict)) IN
         IF IsDict(section) /\ "name" \in DOMAIN section.d
         THEN [label |-> action, shared |-> Put(sh, "current_section", section.d)]
         ELSE IF IsList(section) /\ Len(section.items) > 0
         THEN LET generated_names == NamesOf(Get(sh, "generated_sections", <<>>))
                  ok == {i \in 1..Len(section.items) :
                            /\ IsDict(section.items[i])
                            /\ "name" \in DOMAIN section.items[i].d
                            /\ section.items[i].d.name \notin SeqToSet(generated_names)}
              IN  IF ok # {}
                  THEN LET i == CHOOSE i \in ok : \A j \in ok : i <= j IN
                       [label |-> action,
                        shared |-> Put(sh, "current_section", section.items[i].d)]
                  ELSE [label |-> "complete", shared |-> sh]
         ELSE [label |-> "complete", shared |-> sh]
    ELSE [label |-> action, shared |-> sh]

-----------------------------------------------------------------------------
(* The flow: after a node's post, the next node is the successor declared  *)
(* for (node, label); without one the run ends and returns the label.      *)

FlowStep(label) ==
    /\ last_action' = Some(label)
    /\ IF label \in DOMAIN successors[node]
       THEN /\ node' = successors[node][label]
            /\ phase' = "prep"
       ELSE /\ phase' = "done"
            /\ UNCHANGED node
    /\ UNCHANGED successors

ResearchPost ==
    /\ node = "research" /\ phase = "post"
    /\ LET r == ResearchPostResult(shared, exec_res) IN
        /\ shared' = r.shared
        /\ FlowStep(r.label)
    /\ resp' = NoResp
    /\ loop_count' = 0
    /\ UNCHANGED <<prep_res, exec_res>>

-----------------------------------------------------------------------------
(* SearchInfo: the search node.                                            *)

SearchPrepResult(sh) == [search_terms |-> Get(sh, "search_terms", <<>>)]

\* exec when no search_web call raises: one {"term", "results"} per term, in order
SearchExecResult(search_terms, results) ==
    [all_results |->
        [i \in 1..Len(search_terms) |->
            [term |-> search_terms[i], results |-> results[i]]]]

\* mutant: the batch replaces the context
SearchPostResult_Replace(sh, res) ==
    [ label |-> "search_done",
      shared |-> Put(sh, "context", res.all_results) ]

\* mutant: the batch is put in front of the context
SearchPostResult_NewestFirst(sh, res) ==
    [ label |-> "search_done",
      shared |-> Put(sh, "context", res.all_results \o Get(sh, "context", <<>>)) ]

\* post: context_list.extend(exec_res); return "search_done"
SearchPostResult(sh, res) ==
    [ label |-> "search_done",
      shared |-> Put(sh, "context", Get(sh, "context", <<>>) \o res.all_results) ]

SearchPrep ==
    /\ node = "search" /\ phase = "prep"
    /\ prep_res' = SearchPrepResult(shared)
    /\ phase' = "exec"
    /\ UNCHANGED <<node, shared, exec_res, loop_count, resp, last_action, successors>>

\* mutant: a query that raises leaves the result of the first query in context
SearchExec_KeepsPartial ==
    /\ node = "search" /\ phase = "exec"
    /\ \/ /\ \E results \in SearchOutcomes(prep_res.search_terms, shared) :
                exec_res' = SearchExecResult(prep_res.search_terms, results)
          /\ phase' = "post"
          /\ UNCHANGED shared
       \/ /\ Len(prep_res.search_terms) > 0
          /\ phase' = "error"
          /\ shared' = Put(shared, "context",
                           Append(Get(shared, "context", <<>>),
                                  [term |-> prep_res.search_terms[1],
                                   results |-> <<"hit">>]))
          /\ UNCHANGED exec_res
    /\ UNCHANGED <<node, prep_res, loop_count, resp, last_action, successors>>

\* the whole for loop; search_web is not guarded, so a query that raises ends
\* exec (and the run) with the results collected so far dropped
SearchExec ==
    /\ node = "search" /\ phase = "exec"
    /\ \/ /\ \E results \in SearchOutcomes(prep_res.search_terms, shared) :
                exec_res' = SearchExecResult(prep_res.search_terms, results)
          /\ phase' = "post"
       \/ /\ Len(prep_res.search_terms) > 0
          /\ phase' = "error"
          /\ UNCHANGED exec_res
    /\ UNCHANGED <<node, shared, prep_res, loop_count, resp, last_action, successors>>

SearchPost ==
    /\ node = "search" /\ phase = "post"
    /\ LET r == SearchPostResult(shared, exec_res) IN
        /\ shared' = r.shared
        /\ FlowStep(r.label)
    /\ UNCHANGED <<prep_res, exec_res, loop_count, resp>>

-----------------------------------------------------------------------------
(* GenerateSection: the section node.                                      *)

GeneratePrepResult(sh) ==
    [ industry |-> Get(sh, "industry", ""),
      section |-> Get(sh, "current_section", EmptyDict),
      context |-> Get(sh, "context", <<>>) ]

\* str(section) of a dict without a name, as put into the error text
ReprSection(section) ==
    IF "focus" \in DOMAIN section
    THEN "{focus: " \o section["focus"] \o "}"
    ELSE "{}"

\* exec, given the text call_llm returns
GenerateExecResult(section, content) ==
    IF "name" \notin DOMAIN section
    THEN [name |-> ErrorSectionName,
          content |-> "section format error: " \o ReprSection(section)]
    ELSE [name |-> section["name"], content |-> content]

\* mutant: no dedup guard
GeneratePostResult_NoGuard(sh, res) ==
    [label |-> "continue",
     shared |-> Put(sh, "generated_sections",
                    Append(Get(sh, "generated_sections", <<>>), res))]

\* mutant: the new section is put in front
GeneratePostResult_Prepend(sh, res) ==
    LET sections == Get(sh, "generated_sections", <<>>)
        generated_names == NamesOf(sections)
    IN  IF res.name \in SeqToSet(generated_names)
        THEN [label |-> "continue", shared |-> sh]
        ELSE [label |-> "continue",
              shared |-> Put(sh, "generated_sections", <<res>> \o sections)]

\* post: the dedup guard, then append; "continue" either way
GeneratePostResult(sh, res) ==
    LET sections == Get(sh, "generated_sections", <<>>)
        generated_names == NamesOf(sections)
    IN  IF res.name \in SeqToSet(generated_names)
        THEN [label |-> "continue", shared |-> sh]
        ELSE [label |-> "continue",
              shared |-> Put(sh, "generated_sections", Append(sections, res))]

GeneratePrep ==
    /\ node = "generate" /\ phase = "prep"
    /\ prep_res' = GeneratePrepResult(shared)
    /\ phase' = "exec"
    /\ UNCHANGED <<node, shared, exec_res, loop_count, resp, last_action, successors>>

\* mutant: exec itself stores the section it wrote
GenerateExec_Stores ==
    /\ node = "generate" /\ phase = "exec"
    /\ \E content \in LLMContents(Get(prep_res.section, "name", "")) :
        /\ exec_res' = GenerateExecResult(prep_res.section, content)
        /\ shared' = GeneratePostResult(shared, exec_res').shared
    /\ phase' = "post"
    /\ UNCHANGED <<node, prep_res, loop_count, resp, last_action, successors>>

GenerateExec ==
    /\ node = "generate" /\ phase = "exec"
    /\ \E content \in LLMContents(Get(prep_res.section, "name", "")) :
        exec_res' = GenerateExecResult(prep_res.section, content)
    /\ phase' = "post"
    /\ UNCHANGED <<node, shared, prep_res, loop_count, resp, last_action, successors>>

GeneratePost ==
    /\ node = "generate" /\ phase = "post"
    /\ LET r == GeneratePostResult(shared, exec_res) IN
        /\ shared' = r.shared
        /\ FlowStep(r.label)
    /\ UNCHANGED <<prep_res, exec_res, loop_count, resp>>

-----------------------------------------------------------------------------
(* CompleteReport: the completion node.                                    *)

CompletePrepResult(sh) ==
    [ industry |-> Get(sh, "industry", ""),
      sections |-> Get(sh, "generated_sections", <<>>) ]

\* mutant: a blank line is added after the content
SectionText_BlankAfter(section) ==
    "\n## " \o section.name \o "\n\n" \o section.content \o "\n\n"

\* f"\n## {section['name']}\n\n{section['content']}\n"
SectionText(section) ==
    "\n## " \o section.name \o "\n\n" \o section.content \o "\n"

\* the for loop of exec over sections[from..]
RECURSIVE AppendSections(_, _, _)
AppendSections(content, sections, from) ==
    IF from > Len(sections) THEN content
    ELSE AppendSections(content \o SectionText(sections[from]), sections, from + 1)

\* "行业研究报告" is written "IndustryResearchReport"
CompleteExecResult(industry, sections) ==
    [content |->
        AppendSections("# " \o industry \o "IndustryResearchReport\n\n", sections, 1)]

\* mutant: post returns nothing
CompletePostResult_ReturnsNone(sh, res) ==
    [label |-> "default", shared |-> Put(sh, "report", res.content)]

\* post: shared["report"] = exec_res; return exec_res
CompletePostResult(sh, res) ==
    [label |-> res.content, shared |-> Put(sh, "report", res.content)]

CompletePrep ==
    /\ node = "complete" /\ phase = "prep"
    /\ prep_res' = CompletePrepResult(shared)
    /\ phase' = "exec"
    /\ UNCHANGED <<node, shared, exec_res, loop_count, resp, last_action, successors>>

CompleteExec ==
    /\ node = "complete" /\ phase = "exec"
    /\ exec_res' = CompleteExecResult(prep_res.industry, prep_res.sections)
    /\ phase' = "post"
    /\ UNCHANGED <<node, shared, prep_res, loop_count, resp, last_action, successors>>

CompletePost ==
    /\ node = "complete" /\ phase = "post"
    /\ LET r == CompletePostResult(shared, exec_res) IN
        /\ shared' = r.shared
        /\ FlowStep(r.label)
    /\ UNCHANGED <<prep_res, exec_res, loop_count, resp>>

-----------------------------------------------------------------------------
Next ==
    \/ ResearchPrep
    \/ ResearchExecCap
    \/ ResearchExecIter
    \/ ResearchPost
    \/ SearchPrep
    \/ SearchExec
    \/ SearchPost
    \/ GeneratePrep
    \/ GenerateExec
    \/ GeneratePost
    \/ CompletePrep
    \/ CompleteExec
    \/ CompletePost

\* a run of the workflow as __main__ starts it
Spec == Init /\ [][Next]_vars

\* the same run under the scheduling of the flow: it is one thread that runs
\* the next phase whenever there is one
FairSpec == Init /\ [][Next]_vars /\ WF_vars(Next)

-----------------------------------------------------------------------------
(* One node run on its own (node.run(shared)): no successor is followed,   *)
(* the shared dict is any of a bounded set a run can build.                *)

Section(name, content) == [name |-> name, content |-> content]

Batch(term) == [term |-> term, results |-> <<"hit">>]

NodeSections ==
    { <<>>,
      <<Section("MarketSize", "A")>>,
      <<Section("MarketSize", "A"), Section("Risks", "B")>>,
      <<Section("Risks", "B"), Section("CustomTopic", "")>>,
      [i \in 1..Len(important_sections) |-> Section(important_sections[i], "A")],
      Append([i \in 1..Len(important_sections) |->
                  Section(important_sections[i], "A")],
             Section("CustomTopic", "A")) }

NodeCurrentSections ==
    { EmptyDict, [focus |-> LLMFocus],
      [name |-> "MarketSize", focus |-> LLMFocus],
      [name |-> "Risks", focus |-> DefaultFocus],
      [name |-> "CustomTopic", focus |-> LLMFocus] }

NodeShared ==
    LET base == [industry |-> Industry, max_iterations |-> 10,
                 current_iteration |-> 0, force_refresh |-> FALSE]
        withSections == {base} \cup {Put(base, "generated_sections", g) : g \in NodeSections}
        withCurrent == withSections \cup
            {Put(sh, "current_section", c) :
                sh \in withSections, c \in NodeCurrentSections}
        withTerms == withCurrent \cup
            {Put(sh, "search_terms", t) :
                sh \in withCurrent, t \in {<<>>, <<"t1", "t2">>}}
    IN  withTerms \cup {Put(sh, "context", <<Batch("t0")>>) : sh \in withTerms}

NodeInit ==
    /\ node \in {"research", "search", "generate", "complete"}
    /\ phase = "prep"
    /\ shared \in NodeShared
    /\ prep_res = None
    /\ exec_res = None
    /\ loop_count = 0
    /\ resp = NoResp
    /\ last_action = None
    /\ successors = [n \in DOMAIN Wiring |-> EmptyDict]

NodeSpec == NodeInit /\ [][Next]_vars


-----------------------------------------------------------------------------
(* The workflow from a decision node invocation on, with a model that from *)
(* then on answers every call with a generate decision for a section that  *)
(* is already generated.                                                   *)

\* the sections generated when that phase begins; no list is reached from
\* another one in the phase
DupStartSections ==
    { <<Section("MarketSize", "A")>>,
      <<Section("Risks", "B"), Section("CustomTopic", "")>>,
      <<Section("Outlook", "A"), Section("Competition", "A")>>,
      [i \in 1..Len(important_sections) |-> Section(important_sections[i], "A")],
      <<Section("CustomTopic", "A")>>
        \o [i \in 1..Len(important_sections) |-> Section(important_sections[i], "A")] }

\* the generate decisions for a section that is already generated
DupOutcomes(sh) ==
    {[kind |-> "text",
      text |-> [fence |-> "yaml",
                body |-> [kind |-> "map",
                          m |-> [action |-> "generate", reason |-> LLMReason,
                                 section |-> Dict([name |-> n, focus |-> LLMFocus])]]]] :
        n \in SeqToSet(NamesOf(Get(sh, "generated_sections", <<>>)))}

DupInit ==
    /\ node = "research"
    /\ phase = "prep"
    /\ \E g \in DupStartSections, c \in {<<>>, <<Batch("t0")>>} :
          shared = [industry |-> Industry, max_iterations |-> 10,
                    current_iteration |-> 0, force_refresh |-> FALSE,
                    context |-> c, generated_sections |-> g]
    /\ prep_res = None
    /\ exec_res = None
    /\ loop_count = 0
    /\ resp = NoResp
    /\ last_action = None
    /\ successors = Wiring

ResearchExecDup == ResearchExecStep(DupOutcomes(shared))

DupNext ==
    \/ ResearchPrep
    \/ ResearchExecDup
    \/ ResearchPost
    \/ GeneratePrep
    \/ GenerateExec
    \/ GeneratePost
    \/ CompletePrep
    \/ CompleteExec
    \/ CompletePost

\* the flow is one thread that runs the next phase whenever there is one
DupSpec == DupInit /\ [][DupNext]_vars /\ WF_vars(DupNext)

-----------------------------------------------------------------------------
(* LLMHelper.parse_yaml_response (app/llm/llm_helper.py), called on its    *)
(* own.  A response text is a sequence of tokens: the marker ```yaml, the  *)
(* marker ```, a letter, a blank and the mapping entry "k: v".  Each       *)
(* marker is found as a whole; the letter and the blank are one character  *)
(* each.                                                                   *)

\* the marker ```yaml and the marker ```, written without the backquotes
FenceYaml == "FENCEyaml"
Fence == "FENCE"
Blank == " "
\* a mapping entry, and what is left of it without its last character and the
\* blank before that
MapLine == "k: v"
MapHead == "k:"
Tokens == {FenceYaml, Fence, "a", Blank, MapLine}

ResponseTexts == UNION {[1..n -> Tokens] : n \in 0..MaxResponse}

\* response.find(marker, start) for the markers a search string matches, as a
\* token index: the first one from position from on, 0 for Python's -1.
\* '```yaml' matches the token ```yaml; '```' matches both markers.
Find(response, marks, from) ==
    LET hits == {i \in from..Len(response) : response[i] \in marks}
    IN  IF hits = {} THEN 0 ELSE CHOOSE i \in hits : \A j \in hits : i <= j

\* response[start:end], start being the end of the marker at token m and end
\* the beginning of the marker at token e; with end = -1 the slice stops
\* before the last character of the response ("k: v" is left as "k: ")
Slice(response, m, e) ==
    IF e # 0
    THEN SubSeq(response, m + 1, e - 1)
    ELSE IF m < Len(response) /\ response[Len(response)] = MapLine
    THEN SubSeq(response, m + 1, Len(response) - 1) \o <<MapHead, Blank>>
    ELSE SubSeq(response, m + 1, Len(response) - 1)

\* str.strip()
RECURSIVE Strip(_)
Strip(text) ==
    IF text # <<>> /\ Head(text) = Blank THEN Strip(Tail(text))
    ELSE IF text # <<>> /\ text[Len(text)] = Blank
    THEN Strip(SubSeq(text, 1, Len(text) - 1))
    ELSE text

\* mutant: the first marker opens the block, whatever its label
yaml_content_FirstFence(response) ==
    IF \E i \in 1..Len(response) : response[i] \in {Fence, FenceYaml}
    THEN LET m == Find(response, {Fence, FenceYaml}, 1)
             e == Find(response, {Fence, FenceYaml}, m + 1)
         IN  Strip(Slice(response, m, e))
    ELSE Strip(response)

\* the if / elif / else that picks the text to parse
yaml_content(response) ==
    IF \E i \in 1..Len(response) : response[i] = FenceYaml
    THEN LET m == Find(response, {FenceYaml}, 1)
             e == Find(response, {Fence, FenceYaml}, m + 1)
         IN  Strip(Slice(response, m, e))
    ELSE IF \E i \in 1..Len(response) : response[i] = Fence
    THEN LET m == Find(response, {Fence, FenceYaml}, 1)
             e == Find(response, {Fence, FenceYaml}, m + 1)
         IN  Strip(Slice(response, m, e))
    ELSE Strip(response)

\* yaml.safe_load on a trimmed text.  Nothing loads as None; letters and
\* blanks are a plain scalar (a str); with one mapping entry the text is a
\* mapping of one key (the letters before the entry belong to the key, those
\* after it to the value, "k:" has the value None); a second mapping entry on
\* the line makes it raise ("mapping values are not allowed here")
safe_load(text) ==
    LET entries == {i \in 1..Len(text) : text[i] \in {MapLine, MapHead}} IN
    IF text = <<>> THEN Return(Null)
    ELSE IF entries = {} THEN Return(StrVal(text))
    ELSE IF Cardinality(entries) = 1
    THEN LET i == CHOOSE i \in entries : TRUE
             key == SubSeq(text, 1, i - 1) \o <<"k">>
             value == IF text[i] = MapHead THEN Null
                      ELSE StrVal(<<"v">> \o SubSeq(text, i + 1, Len(text)))
         IN  Return(Dict([x \in {key} |-> value]))
    ELSE Raise

ParseInit ==
    /\ node = "parse_yaml_response"
    /\ phase = "call"
    /\ resp \in {[text |-> r] : r \in ResponseTexts}
    /\ shared = EmptyDict
    /\ prep_res = None
    /\ exec_res = None
    /\ loop_count = 0
    /\ last_action = None
    /\ successors = EmptyDict

\* the call, the whole body being inside try / except Exception: return {};
\* exec_res holds the local yaml_content and the value returned
parse_yaml_response ==
    /\ node = "parse_yaml_response" /\ phase = "call"
    /\ LET content == yaml_content(resp.text)
           r == TryExcept(safe_load(content), Dict(EmptyDict))
       IN  IF r.kind = "raise"
           THEN /\ phase' = "raise"
                /\ exec_res' = [yaml_content |-> content]
           ELSE /\ phase' = "return"
                /\ exec_res' = [yaml_content |-> content, value |-> r.value]
    /\ UNCHANGED <<node, shared, prep_res, loop_count, resp, last_action, successors>>

ParseNext == parse_yaml_response

ParseSpec == ParseInit /\ [][ParseNext]_vars

-----------------------------------------------------------------------------
(* The model call helpers, each called on its own: call_llm of the         *)
(* workflow and LLMHelper.async_ask, ask, async_call, call.  What a        *)
(* statement evaluates to is a value or a raised exception (an Exception   *)
(* subclass); a text is a sequence of letters and blanks.                  *)

\* the texts a model answers with: "", "a", " a " and " "
HelperTexts == {<<>>, <<"a">>, <<Blank, "a", Blank>>, <<Blank>>}

\* what the client call does: it returns a response whose first choice holds a
\* text, or None as content, or a response without choices, or it raises
ClientOutcomes ==
    {[kind |-> "text", text |-> t] : t \in HelperTexts}
    \cup {[kind |-> "none_content"], [kind |-> "no_choices"], [kind |-> "raise"]}

\* the event loop a synchronous helper finds: none running; one running with
\* nest_asyncio importable; the same with asyncio.run still refusing to nest;
\* one running without nest_asyncio (the helper then uses a thread)
LoopStates == {"none", "nested", "nested_refused", "thread"}

\* the client call followed by response.choices[0].message.content
ClientContent(outcome) ==
    CASE outcome.kind = "text"         -> Return(StrVal(outcome.text))
      [] outcome.kind = "none_content" -> Return(Null)
      [] OTHER                         -> Raise

\* .strip() on what precedes; None has no strip
StripContent(r) ==
    IF r.kind = "raise" THEN Raise
    ELSE IF r.value.kind # "str" THEN Raise
    ELSE Return(StrVal(Strip(r.value.s)))

\* call_llm of the workflow, on texts (call_llm above is the same on the
\* responses of the decision node)
call_llm_text(outcome) ==
    TryExcept(StripContent(ClientContent(outcome)), StrVal(<<>>))

async_ask(outcome) ==
    TryExcept(ClientContent(outcome), StrVal(<<>>))

\* log_llm_call catches what its write raises, so it passes the result on
async_call(outcome, log_ok) ==
    TryExcept(ClientContent(outcome), StrVal(<<>>))

\* the body of the outer try of ask / call around the coroutine's result r:
\* without a running loop get_running_loop raises RuntimeError and the except
\* clause runs asyncio.run; with nest_asyncio asyncio.run is called at once,
\* and when it refuses (RuntimeError) the except clause calls it again, which
\* refuses again; without nest_asyncio a thread runs the coroutine
RunSync(r, loop) ==
    CASE loop = "none"           -> r
      [] loop = "nested"         -> r
      [] loop = "nested_refused" -> Raise
      [] loop = "thread"         -> r

ask(outcome, loop) ==
    TryExcept(RunSync(async_ask(outcome), loop), StrVal(<<>>))

call(outcome, loop, log_ok) ==
    TryExcept(RunSync(async_call(outcome, log_ok), loop), StrVal(<<>>))

Helpers == {"call_llm", "async_ask", "ask", "async_call", "call"}

HelperInit ==
    /\ node \in Helpers
    /\ phase = "call"
    /\ prep_res \in [client : ClientOutcomes, loop : LoopStates, log_ok : BOOLEAN]
    /\ exec_res = None
    /\ shared = EmptyDict
    /\ loop_count = 0
    /\ resp = NoResp
    /\ last_action = None
    /\ successors = EmptyDict

\* the helper returns r's value to its caller, or r's exception reaches it
HelperEnds(r) ==
    /\ phase = "call"
    /\ IF r.kind = "raise"
       THEN phase' = "raise" /\ UNCHANGED exec_res
       ELSE phase' = "return" /\ exec_res' = [value |-> r.value]
    /\ UNCHANGED <<node, shared, prep_res, loop_count, resp, last_action, successors>>

HelperCallLlm == node = "call_llm" /\ HelperEnds(call_llm_text(prep_res.client))

HelperAsyncAsk == node = "async_ask" /\ HelperEnds(async_ask(prep_res.client))

HelperAsk == node = "ask" /\ HelperEnds(ask(prep_res.client, prep_res.loop))

HelperAsyncCall ==
    node = "async_call" /\ HelperEnds(async_call(prep_res.client, prep_res.log_ok))

HelperCall ==
    node = "call"
    /\ HelperEnds(call(prep_res.client, prep_res.loop, prep_res.log_ok))

HelperNext ==
    \/ HelperCallLlm
    \/ HelperAsyncAsk
    \/ HelperAsk
    \/ HelperAsyncCall
    \/ HelperCall

HelperSpec == HelperInit /\ [][HelperNext]_vars

-----------------------------------------------------------------------------
(* LLMHelper.ask and LLMHelper.call when an event loop is running and      *)
(* nest_asyncio cannot be imported: the coroutine runs on a worker thread  *)
(* (run_task) that the calling thread starts and joins.  shared holds the  *)
(* locals the two threads share (result, exception) and the thread's       *)
(* state; loop_count counts the worker threads started.                    *)

\* what goes wrong in run_task outside the coroutine (new_event_loop and
\* set_event_loop): nothing, a RuntimeError, another Exception
WorkerFaults == {"none", "RuntimeError", "OSError"}

ThreadInit ==
    /\ node \in {"ask", "call"}
    /\ phase = "call"
    /\ prep_res \in [client : ClientOutcomes, fault : WorkerFaults, log_ok : BOOLEAN]
    /\ shared = [result |-> Null, exception |-> "none", thread |-> "unstarted"]
    /\ exec_res = None
    /\ loop_count = 0
    /\ resp = NoResp
    /\ last_action = None
    /\ successors = EmptyDict

\* result = None; exception = None; thread = Thread(target=run_task);
\* thread.start()
ThreadStart ==
    /\ node \in {"ask", "call"} /\ phase = "call"
    /\ shared["thread"] = "unstarted"
    /\ shared' = [result |-> Null, exception |-> "none", thread |-> "running"]
    /\ loop_count' = loop_count + 1
    /\ phase' = "join"
    /\ UNCHANGED <<node, prep_res, exec_res, resp, last_action, successors>>

\* run_task on the worker thread: the coroutine's value goes to result, an
\* exception raised around it to exception
run_task ==
    /\ shared["thread"] = "running"
    /\ LET r == IF node = "ask" THEN async_ask(prep_res.client)
                ELSE async_call(prep_res.client, prep_res.log_ok)
       IN  IF prep_res.fault # "none"
           THEN shared' = [shared EXCEPT !["exception"] = prep_res.fault,
                                         !["thread"] = "finished"]
           ELSE shared' = [shared EXCEPT !["result"] = r.value,
                                         !["thread"] = "finished"]
    /\ UNCHANGED <<node, phase, prep_res, exec_res, loop_count, resp, last_action,
                   successors>>

\* what the calling thread does with the locals once it goes on: "if
\* exception: raise exception"; a RuntimeError is caught by the inner except
\* clause, whose asyncio.run refuses to run inside the running loop; whatever
\* is raised ends in the outer except clause, which returns ""
AfterJoin(sh) ==
    TryExcept(IF sh["exception"] = "none" THEN Return(sh["result"]) ELSE Raise,
              StrVal(<<>>))

\* mutant: the calling thread does not wait for the worker
ThreadJoin_NoWait ==
    /\ node \in {"ask", "call"} /\ phase = "join"
    /\ exec_res' = [value |-> AfterJoin(shared).value]
    /\ phase' = "return"
    /\ UNCHANGED <<node, shared, prep_res, loop_count, resp, last_action, successors>>

\* thread.join() and the rest of the method
ThreadJoin ==
    /\ node \in {"ask", "call"} /\ phase = "join"
    /\ shared["thread"] = "finished"
    /\ exec_res' = [value |-> AfterJoin(shared).value]
    /\ phase' = "return"
    /\ UNCHANGED <<node, shared, prep_res, loop_count, resp, last_action, successors>>

ThreadNext ==
    \/ ThreadStart
    \/ run_task
    \/ ThreadJoin

ThreadSpec == ThreadInit /\ [][ThreadNext]_vars

-----------------------------------------------------------------------------
(* ReportGenerationPipeline.generate_report of                             *)
(* run_company_research_report.py, one call.  phase is the place in the    *)
(* method, loop_count the local discuss_count, shared the state of the     *)
(* pipeline object, of report_info and of the working directory, resp the  *)
(* agent calls made so far.  The agents, ReportInfo and the document       *)
(* conversion are collaborators: an agent call returns a value that tells  *)
(* which call it was, or raises.                                           *)

\* the name of the report file
output_file == "Company_Research_Report.md"

\* mutant: the loops run config.max_discuss_rounds times
DiscussRounds_Config == prep_res.max_discuss_rounds

\* the hard-coded bound of "while discuss_count < 2"
DiscussRounds == 2

\* the most parts an outline of the model has
MaxParts == 2

\* the outlines the outline agent returns in a round: a list of parts, each
\* with or without sub-nodes, possibly empty
OutlinesOf(round) ==
    UNION {[1..n -> {[part_title |-> "leaf", round |-> round],
                     [part_title |-> "branch", round |-> round]}] : n \in 0..MaxParts}

\* which collaborator raises in this call, if any
CompanyFaults ==
    {"none", "setup", "outline_agent", "section_agent", "abstract_agent", "conversion"}

\* mutant: the truth values tell the parts without sub-nodes
has_sub_nodes_Inverted(outline) ==
    [i \in 1..Len(outline) |-> outline[i].part_title # "branch"]

\* report_info.has_sub_nodes(): one truth value per part of the outline
has_sub_nodes(outline) ==
    [i \in 1..Len(outline) |-> outline[i].part_title = "branch"]

CompanyInit ==
    /\ node = "generate_report"
    /\ phase = "setup"
    /\ prep_res \in [ max_discuss_rounds : {1, 3},
                       fault : CompanyFaults,
                       outline1 : {<<>>, <<[part_title |-> "leaf", round |-> 1]>>},
                       outline2 : OutlinesOf(2) ]
    /\ \E md \in BOOLEAN, docx \in BOOLEAN :
          shared = [ files |-> (IF md THEN [f \in {output_file} |-> "old report"]
                                ELSE EmptyDict),
                     docx |-> docx,
                     copies |-> 0,
                     parts |-> <<>>,
                     idx |-> 0,
                     opinion |-> None,
                     report_content |-> <<>> ]
    /\ exec_res = None
    /\ loop_count = 0
    /\ resp = [calls |-> <<>>]
    /\ last_action = None
    /\ successors = EmptyDict

\* the method returns value (None after an exception)
CompanyReturns(value) ==
    /\ phase' = "returned"
    /\ exec_res' = [value |-> value]

\* self._setup_agents(), the RAG context and ReportInfo(...); then
\* generate_outline(use_template=False) up to its loop
SetupAgents ==
    /\ node = "generate_report" /\ phase = "setup"
    /\ IF prep_res.fault = "setup"
       THEN CompanyReturns(Null) /\ UNCHANGED loop_count
       ELSE phase' = "outline_opinion" /\ loop_count' = 0 /\ UNCHANGED exec_res
    /\ UNCHANGED <<node, shared, prep_res, resp, last_action, successors>>

\* self._agents['outline_opinion'].generate(self.report_info)
OutlineOpinion ==
    /\ node = "generate_report" /\ phase = "outline_opinion"
    /\ loop_count < DiscussRounds
    /\ resp' = [calls |-> Append(resp.calls, "outline_opinion")]
    /\ phase' = "outline"
    /\ UNCHANGED <<node, shared, prep_res, exec_res, loop_count, last_action,
                   successors>>

\* parts = self._agents['outline'].generate(self.report_info);
\* discuss_count += 1; an exception is caught by generate_outline, which
\* returns None, and generate_report raises ValueError into its own except
OutlineGenerate ==
    /\ node = "generate_report" /\ phase = "outline"
    /\ resp' = [calls |-> Append(resp.calls, "outline")]
    /\ IF prep_res.fault = "outline_agent"
       THEN CompanyReturns(Null) /\ UNCHANGED <<shared, loop_count>>
       ELSE /\ shared' = [shared EXCEPT !["parts"] =
                              IF loop_count = 0 THEN prep_res.outline1
                              ELSE prep_res.outline2]
            /\ loop_count' = loop_count + 1
            /\ phase' = IF loop_count + 1 < DiscussRounds
                        THEN "outline_opinion" ELSE "outline_done"
            /\ UNCHANGED exec_res
    /\ UNCHANGED <<node, prep_res, last_action, successors>>

\* "if not parts: return None" and "if not outline: raise ValueError";
\* otherwise report_outline = parts, and get_full_report begins
\* generate_report_content_1
OutlineDone ==
    /\ node = "generate_report" /\ phase = "outline_done"
    /\ IF shared["parts"] = <<>>
       THEN CompanyReturns(Null) /\ UNCHANGED shared
       ELSE /\ shared' = Put([shared EXCEPT !["idx"] = 1,
                                            !["report_content"] = <<>>],
                             "report_outline", shared["parts"])
            /\ phase' = "part"
            /\ UNCHANGED exec_res
    /\ UNCHANGED <<node, prep_res, loop_count, resp, last_action, successors>>

\* the head of "for idx, part in enumerate(outline)": the title line for a
\* part with sub-nodes, the discussion for another part, and after the last
\* part "return report_content"
PartBegin ==
    /\ node = "generate_report" /\ phase = "part"
    /\ LET outline == shared["report_outline"]
           nodes == has_sub_nodes(outline)
           idx == shared["idx"]
       IN  IF idx > Len(outline)
           THEN /\ shared' = Put(shared, "report_text_list", shared["report_content"])
                /\ phase' = "abstract"
                /\ UNCHANGED loop_count
           ELSE IF nodes[idx]
           THEN /\ shared' = [shared EXCEPT
                                !["report_content"] =
                                    Append(@, [kind |-> "title", part |-> outline[idx]]),
                                !["idx"] = idx + 1]
                /\ UNCHANGED <<phase, loop_count>>
           ELSE /\ loop_count' = 0
                /\ phase' = "section_opinion"
                /\ UNCHANGED shared
    /\ UNCHANGED <<node, prep_res, exec_res, resp, last_action, successors>>

\* opinion = self._agents['section_opinion'].generate(self.report_info);
\* cur_subsection_content_opinion = opinion
SectionOpinion ==
    /\ node = "generate_report" /\ phase = "section_opinion"
    /\ loop_count < DiscussRounds
    /\ resp' = [calls |-> Append(resp.calls, "section_opinion")]
    /\ IF prep_res.fault = "section_agent"
       THEN CompanyReturns(Null) /\ UNCHANGED shared
       ELSE /\ shared' = [shared EXCEPT !["opinion"] =
                              Some([idx |-> shared["idx"], round |-> loop_count + 1])]
            /\ phase' = "section_edit"
            /\ UNCHANGED exec_res
    /\ UNCHANGED <<node, prep_res, loop_count, last_action, successors>>

\* cur_content = self._agents['section_edit'].generate(report_info);
\* discuss_count += 1; after the loop report_content.append(cur_content)
SectionEdit ==
    /\ node = "generate_report" /\ phase = "section_edit"
    /\ resp' = [calls |-> Append(resp.calls, "section_edit")]
    /\ loop_count' = loop_count + 1
    /\ LET cur_content == [kind |-> "content",
                           part |-> shared["report_outline"][shared["idx"]],
                           round |-> loop_count + 1,
                           opinion |-> shared["opinion"]]
       IN  IF loop_count + 1 < DiscussRounds
           THEN /\ phase' = "section_opinion"
                /\ UNCHANGED shared
           ELSE /\ phase' = "part"
                /\ shared' = [shared EXCEPT
                                !["report_content"] = Append(@, cur_content),
                                !["idx"] = @ + 1]
    /\ UNCHANGED <<node, prep_res, exec_res, last_action, successors>>

\* the text get_full_report joins: title, abstract, table of contents and the
\* texts of the parts
FullReport(sh) ==
    [ title |-> "report_title", abstract |-> "abstract",
      texts |-> sh["report_text_list"] ]

\* get_abstract and the join of get_full_report
Abstract ==
    /\ node = "generate_report" /\ phase = "abstract"
    /\ resp' = [calls |-> Append(resp.calls, "abstract")]
    /\ IF prep_res.fault = "abstract_agent"
       THEN CompanyReturns(Null) /\ UNCHANGED shared
       ELSE /\ shared' = Put(shared, "final_report", FullReport(shared))
            /\ phase' = "save"
            /\ UNCHANGED exec_res
    /\ UNCHANGED <<node, prep_res, loop_count, last_action, successors>>

\* "# 保存报告" to the end: shutil.copy of the old file (FileNotFoundError
\* without one), removal of the old .md and .docx, the write, the conversion
SaveReport ==
    /\ node = "generate_report" /\ phase = "save"
    /\ IF output_file \notin DOMAIN shared["files"]
       THEN CompanyReturns(Null) /\ UNCHANGED shared
       ELSE LET written == [shared EXCEPT
                                !["copies"] = @ + 1,
                                !["docx"] = FALSE,
                                !["files"] = [f \in {output_file} |->
                                                  shared["final_report"]]]
            IN  /\ shared' = written
                /\ IF prep_res.fault = "conversion"
                   THEN CompanyReturns(Null)
                   ELSE CompanyReturns(StrVal(<<output_file>>))
    /\ UNCHANGED <<node, prep_res, loop_count, resp, last_action, successors>>

CompanyNext ==
    \/ SetupAgents
    \/ OutlineOpinion
    \/ OutlineGenerate
    \/ OutlineDone
    \/ PartBegin
    \/ SectionOpinion
    \/ SectionEdit
    \/ Abstract
    \/ SaveReport

CompanySpec == CompanyInit /\ [][CompanyNext]_vars

-----------------------------------------------------------------------------
(* The batch runner, main of app/run.py.  loop_count is the position in    *)
(* the scripts list, shared holds the child processes that are running and *)
(* what has been done with each script so far, prep_res what the           *)
(* environment holds for each script.                                      *)

\* the scripts list, in its order
scripts ==
    << "run_company_research_report.py", "run_industry_research_report.py",
       "run_marco_research_report.py" >>

\* what a script is for the runner: not on disk; run to exit code 0; run to
\* a non-zero exit code; subprocess.run raising before a child runs
ScriptFates == {"missing", "ok", "fails", "raises"}

RunnerInit ==
    /\ node = "main"
    /\ phase = "loop"
    /\ prep_res \in [1..Len(scripts) -> ScriptFates]
    /\ shared = [running |-> {}, done |-> <<>>]
    /\ loop_count = 1
    /\ exec_res = None
    /\ resp = NoResp
    /\ last_action = None
    /\ successors = EmptyDict

\* the script is dealt with: the loop goes to the next one
NextScript(outcome) ==
    /\ shared' = [running |-> {},
                  done |-> Append(shared["done"],
                                  [script |-> scripts[loop_count], outcome |-> outcome])]
    /\ loop_count' = loop_count + 1
    /\ phase' = "loop"

\* mutant: a script that is not found ends the loop
ScriptMissing_Stops ==
    /\ node = "main" /\ phase = "loop"
    /\ loop_count <= Len(scripts)
    /\ prep_res[loop_count] = "missing"
    /\ shared' = [shared EXCEPT !["done"] =
                      Append(@, [script |-> scripts[loop_count], outcome |-> "missing"])]
    /\ phase' = "done"
    /\ UNCHANGED <<node, prep_res, exec_res, loop_count, resp, last_action, successors>>

\* "if not os.path.exists(script_path): ... continue"
ScriptMissing ==
    /\ node = "main" /\ phase = "loop"
    /\ loop_count <= Len(scripts)
    /\ prep_res[loop_count] = "missing"
    /\ NextScript("missing")
    /\ UNCHANGED <<node, prep_res, exec_res, resp, last_action, successors>>

\* subprocess.run(...) begins: the child runs, or the call raises and the
\* except clause prints
ScriptStart ==
    /\ node = "main" /\ phase = "loop"
    /\ loop_count <= Len(scripts)
    /\ prep_res[loop_count] # "missing"
    /\ IF prep_res[loop_count] = "raises"
       THEN NextScript("raised")
       ELSE /\ shared' = [shared EXCEPT !["running"] = @ \cup {scripts[loop_count]}]
            /\ phase' = "wait"
            /\ UNCHANGED loop_count
    /\ UNCHANGED <<node, prep_res, exec_res, resp, last_action, successors>>

\* the child exits and subprocess.run returns: the output and a non-zero
\* return code are printed
ScriptExit ==
    /\ node = "main" /\ phase = "wait"
    /\ NextScript(IF prep_res[loop_count] = "ok" THEN "exit 0" ELSE "exit 1")
    /\ UNCHANGED <<node, prep_res, exec_res, resp, last_action, successors>>

\* the for loop is exhausted
RunnerEnd ==
    /\ node = "main" /\ phase = "loop"
    /\ loop_count > Len(scripts)
    /\ phase' = "done"
    /\ UNCHANGED <<node, shared, prep_res, exec_res, loop_count, resp, last_action,
                   successors>>

RunnerNext ==
    \/ ScriptMissing
    \/ ScriptStart
    \/ ScriptExit
    \/ RunnerEnd

RunnerSpec == RunnerInit /\ [][RunnerNext]_vars

-----------------------------------------------------------------------------
(* Vocabulary of the properties.                                           *)

generated_sections == Get(shared, "generated_sections", <<>>)

\* the decision node's exec has returned and its post has not run yet
DecisionReturned == node = "research" /\ phase = "post"

\* the last response held a ```yaml block that parsed to a mapping with an
\* action and a reason
RespIsDecision ==
    /\ resp.fence = "yaml"
    /\ resp.body.kind = "map"
    /\ "action" \in DOMAIN resp.body.m
    /\ "reason" \in DOMAIN resp.body.m

RespIsGenerate == RespIsDecision /\ resp.body.m.action = "generate"

\* ... a generate decision whose section is a record with a name
RespNamesSection ==
    /\ RespIsGenerate
    /\ "section" \in DOMAIN resp.body.m
    /\ resp.body.m.section.kind = "dict"
    /\ "name" \in DOMAIN resp.body.m.section.d

RespSectionName == resp.body.m.section.d.name

\* the names the decision node was given as already generated
GivenNames == SeqToSet(prep_res.generated_section_names)

Checklist == SeqToSet(important_sections)

\* the label the decision node's post is about to return
DecisionLabel == ResearchPostResult(shared, exec_res).label

-----------------------------------------------------------------------------
(* C1 *)
\* C1: every run of the wired workflow, whatever the model answers (always a
\* search decision included), eventually executes the completion node and
\* halts there.  Runs that end in an exception (C10) are set aside here.
C1_RunCompletes ==
    [](phase # "error") => <>(node = "complete" /\ phase = "done")

(* C2 *)
\* C2: when the parsed decision is generate for a section name that is already
\* generated, the decision node returns generate for the first checklist entry
\* (in checklist order) that is not generated, with the default focus, and
\* returns complete when every checklist entry is generated.
C2_DuplicateIsRepaired ==
    (DecisionReturned /\ RespNamesSection /\ RespSectionName \in GivenNames) =>
        IF Checklist \subseteq GivenNames
        THEN exec_res.action = "complete"
        ELSE /\ exec_res.action = "generate"
             /\ \E i \in 1..Len(important_sections) :
                  /\ important_sections[i] \notin GivenNames
                  /\ \A j \in 1..(i - 1) : important_sections[j] \in GivenNames
                  /\ exec_res.section =
                        Dict([name |-> important_sections[i], focus |-> DefaultFocus])

\* a duplicate request arrives when the whole checklist is generated
C2_Witness ==
    /\ DecisionReturned /\ RespNamesSection /\ RespSectionName \in GivenNames
    /\ Checklist \subseteq GivenNames
    /\ exec_res.action = "complete"

(* C3 *)
\* C3 as stated: a generate decision for MarketSize while MarketSize is
\* generated and Competition is not yields generate for Competition with the
\* default focus.
C3_Original ==
    (/\ DecisionReturned /\ RespNamesSection
     /\ RespSectionName = "MarketSize"
     /\ "MarketSize" \in GivenNames
     /\ "Competition" \notin GivenNames) =>
        /\ exec_res.action = "generate"
        /\ exec_res.section = Dict([name |-> "Competition", focus |-> DefaultFocus])

\* C3 amended: the same, provided IndustryOverview, the checklist entry before
\* MarketSize, is generated too (so that Competition is the first entry left).
C3_SubstitutesCompetition ==
    (/\ DecisionReturned /\ RespNamesSection
     /\ RespSectionName = "MarketSize"
     /\ "MarketSize" \in GivenNames
     /\ "IndustryOverview" \in GivenNames
     /\ "Competition" \notin GivenNames) =>
        /\ exec_res.action = "generate"
        /\ exec_res.section = Dict([name |-> "Competition", focus |-> DefaultFocus])

C3_Witness ==
    /\ DecisionReturned /\ RespNamesSection
    /\ RespSectionName = "MarketSize"
    /\ {"MarketSize", "IndustryOverview"} \subseteq GivenNames
    /\ "Competition" \notin GivenNames
    /\ exec_res.section.d.name = "Competition"

(* C4 *)
\* C4 as stated: with all seven checklist sections generated, every generate
\* decision, for a generated or a new section name, makes the decision node
\* return complete.
C4_Original ==
    (DecisionReturned /\ RespIsGenerate /\ Checklist \subseteq GivenNames) =>
        DecisionLabel = "complete"

\* C4 amended: with all seven checklist sections generated, every generate
\* decision for a section name that is already generated makes the decision
\* node return complete.
C4_DuplicateCompletes ==
    (/\ DecisionReturned /\ RespNamesSection
     /\ Checklist \subseteq GivenNames
     /\ RespSectionName \in GivenNames) =>
        /\ exec_res.action = "complete"
        /\ DecisionLabel = "complete"

\* the duplicate asked for is a section that is not on the checklist
C4_Witness ==
    /\ DecisionReturned /\ RespNamesSection
    /\ Checklist \subseteq GivenNames
    /\ RespSectionName \in GivenNames \ Checklist
    /\ DecisionLabel = "complete"
(* C5 *)
\* C5: when the section the generate node produced has the name of an entry of
\* generated_sections, its post leaves generated_sections as it was (length,
\* entries, contents, order) and returns continue.
C5_DuplicateIsNoOp ==
    [][ (/\ node = "generate" /\ phase = "post"
         /\ \E i \in 1..Len(generated_sections) :
                generated_sections[i].name = exec_res.name)
        => /\ Get(shared', "generated_sections", <<>>) = generated_sections
           /\ last_action' = Some("continue") ]_vars

\* the post has run on a section whose name was there with another content
C5_Witness ==
    /\ node = "generate" /\ phase = "done"
    /\ last_action = Some("continue")
    /\ \E i \in 1..Len(generated_sections) :
        /\ generated_sections[i].name = exec_res.name
        /\ generated_sections[i].content # exec_res.content

(* C6 *)
\* C6: in every reachable state of a workflow run no two entries of
\* generated_sections have the same name.
C6_NamesUnique ==
    \A i, j \in 1..Len(generated_sections) :
        i # j => generated_sections[i].name # generated_sections[j].name

\* a section was generated after a duplicate request had been repaired
C6_Witness ==
    /\ node = "research" /\ phase = "prep"
    /\ last_action = Some("continue")
    /\ Len(generated_sections) >= 2
    /\ shared["current_section"]["focus"] = DefaultFocus

(* C7 *)
\* the document that lists the sections in the order of the sequence
RECURSIVE C7_Document(_, _)
C7_Document(industry, sections) ==
    IF sections = <<>>
    THEN "# " \o industry \o "IndustryResearchReport\n\n"
    ELSE LET n == Len(sections) IN
         C7_Document(industry, SubSeq(sections, 1, n - 1))
            \o "\n## " \o sections[n].name \o "\n\n" \o sections[n].content \o "\n"

\* C7: generated_sections changes only by the generate node appending the
\* section its exec just produced after the entries already there, and the
\* completion node's document lists the sections in that same order.
C7_OrderPreserved ==
    [][ /\ (node = "generate" /\ phase = "post")
            => \/ Get(shared', "generated_sections", <<>>) = generated_sections
               \/ Get(shared', "generated_sections", <<>>) =
                    Append(generated_sections, exec_res)
        /\ ~(node = "generate" /\ phase = "post")
            => Get(shared', "generated_sections", <<>>) = generated_sections
        /\ (node' = "complete" /\ phase' \in {"post", "done"})
            => exec_res'.content = C7_Document(shared'["industry"],
                                       Get(shared', "generated_sections", <<>>)) ]_vars

\* a finished run whose generation order is not the checklist order
C7_Witness ==
    /\ node = "complete" /\ phase = "done"
    /\ "report" \in DOMAIN shared
    /\ Len(generated_sections) >= 3
    /\ generated_sections[1].name = important_sections[2]
    /\ generated_sections[2].name = important_sections[1]

(* C8 *)
C8_Sections == <<[name |-> "MarketSize", content |-> "A"],
                 [name |-> "Risks", content |-> "B"]>>

C8_Case ==
    /\ node = "complete" /\ phase \in {"post", "done"}
    /\ prep_res.industry = "X"
    /\ prep_res.sections = C8_Sections

\* C8 as stated: for industry X and sections MarketSize/A, Risks/B the document
\* has three newlines between the content A and the next heading.
C8_Original ==
    C8_Case => exec_res.content =
        "# XIndustryResearchReport\n\n\n## MarketSize\n\nA\n\n\n## Risks\n\nB\n"

\* C8 amended: the document is the title line followed by three newlines, each
\* heading followed by two newlines and the content, two newlines between the
\* content A and the next heading, and one newline after B.
C8_ExactDocument ==
    C8_Case => exec_res.content =
        "# XIndustryResearchReport\n\n\n## MarketSize\n\nA\n\n## Risks\n\nB\n"

C8_Witness ==
    /\ C8_Case
    /\ phase = "done"
    /\ shared["report"] = exec_res.content

(* C9 *)
\* the last response has no ```yaml block, or one that is not YAML
RespUnparsable ==
    /\ resp.fence # "unset"
    /\ (resp.fence # "yaml" \/ resp.body.kind = "invalid")

\* C9: when the model response cannot be parsed (no fenced yaml block, or
\* invalid YAML inside it) the decision node returns; its action is complete
\* and the result carries a non-empty reason.
C9_ParseFailureCompletes ==
    (node = "research" /\ RespUnparsable) =>
        /\ phase = "post"
        /\ exec_res.action = "complete"
        /\ exec_res.reason # ""
        /\ DecisionLabel = "complete"

\* an unfenced, well-formed decision was answered and treated as unparsable
C9_Witness ==
    /\ DecisionReturned
    /\ resp.fence = "none"
    /\ resp.body = WellFormedSearch
    /\ exec_res.reason = ParseFailReason

(* C10 *)
\* C10: for every model response, the wrong shapes included, the decision
\* node's exec finishes without raising and returns search, generate or
\* complete.
C10_NeverRaises ==
    (node = "research" /\ phase \in {"post", "error"}) =>
        /\ phase = "post"
        /\ exec_res.action \in {"search", "generate", "complete"}

(* C11 *)
\* the last response was a generate decision whose section is anything but a
\* record with a name: missing, empty, a list, a string, a number, a mapping
\* without name
RespSectionMalformed == RespIsGenerate /\ ~RespNamesSection

\* whether two dicts agree on key k (both lack it, or both hold the same value)
SameAt(d1, d2, k) ==
    /\ (k \in DOMAIN d1) = (k \in DOMAIN d2)
    /\ k \in DOMAIN d1 => d1[k] = d2[k]

\* C11: when the parsed decision is generate and its section is not a single
\* record carrying a name, the decision node's exec returns, the label its
\* post returns is complete, and the post leaves current_section as it was.
C11_MalformedCompletes ==
    (node = "research" /\ phase \in {"post", "error"} /\ RespSectionMalformed) =>
        /\ phase = "post"
        /\ DecisionLabel = "complete"
        /\ SameAt(ResearchPostResult(shared, exec_res).shared, shared,
                  "current_section")

(* C12 *)
\* C12: one invocation of the decision node runs its loop, one model call per
\* iteration, at most max_loops = 10 times; when no iteration has yielded
\* search, generate or complete by then, the invocation returns complete.
C12_AtMostTenCalls ==
    node = "research" =>
        /\ loop_count <= max_loops
        /\ (phase = "post" /\ RespIsDecision /\ ~LoopExits(resp.body.m))
                => exec_res.action = "complete"

(* C13 *)
\* the last response has no fence, and its whole text is a well-formed search
\* decision with a list of search_terms
RespUnfencedDecision == resp.fence = "none" /\ resp.body = WellFormedSearch

RespEmpty == resp = EmptyText

\* the run has ended in the completion node with the document of the sections
\* generated so far as report and as result
EndedWithDocument ==
    /\ node = "complete" /\ phase = "done"
    /\ "report" \in DOMAIN shared
    /\ shared["report"] = C7_Document(shared["industry"], generated_sections)
    /\ last_action = Some(shared["report"])

\* C14: when the model call fails during a decision node invocation, nothing
\* is raised: the text is taken as empty, the invocation returns complete with
\* a reason, and the run goes on to the completion node and ends with the
\* document of the sections generated so far.
C14_FailureCompletes ==
    /\ []((node = "research" /\ RespEmpty) =>
            /\ phase = "post"
            /\ exec_res.action = "complete"
            /\ exec_res.reason # ""
            /\ DecisionLabel = "complete")
    /\ [][ (node = "complete" \/ (DecisionReturned /\ RespEmpty))
            => Get(shared', "generated_sections", <<>>) = generated_sections ]_vars
    /\ ((DecisionReturned /\ RespEmpty) ~> EndedWithDocument)

\* the call failed after two sections had been generated
C14_Witness ==
    /\ DecisionReturned /\ RespEmpty
    /\ Len(generated_sections) >= 2
    /\ exec_res.reason = ParseFailReason

(* C15 *)
\* a search node execution has ended in an exception
SearchRaised == node = "search" /\ phase = "error"

\* C15: when a query raises during a search node execution, the exception ends
\* the run (no step follows), the shared dict is what it was when that
\* execution began (nothing of the batch is appended to context), and report
\* is not set.
C15_SearchFailurePropagates ==
    [][ /\ ~SearchRaised
        /\ (node = "search" /\ phase \in {"prep", "exec"}) => shared' = shared
        /\ (node' = "search" /\ phase' = "error")
                => "report" \notin DOMAIN shared' ]_vars

\* a batch of two queries failed when context already held earlier batches
C15_Witness ==
    /\ SearchRaised
    /\ Len(prep_res.search_terms) = 2
    /\ Len(Get(shared, "context", <<>>)) = 2
    /\ shared["search_terms"] = prep_res.search_terms
    /\ "report" \notin DOMAIN shared

(* C16 *)
\* C16: a search node execution over search_terms t1..tn that completes keeps
\* every earlier entry of context in place, appends after them exactly n
\* batches {term, results}, for t1..tn in that order, and returns search_done,
\* for n = 0 as well.
C16_BatchAppended ==
    [][ (node = "search" /\ phase = "post") =>
            LET old == Get(shared, "context", <<>>)
                new == Get(shared', "context", <<>>)
                terms == Get(shared, "search_terms", <<>>)
            IN  /\ Len(new) = Len(old) + Len(terms)
                /\ SubSeq(new, 1, Len(old)) = old
                /\ \A i \in 1..Len(terms) :
                      /\ DOMAIN new[Len(old) + i] = {"term", "results"}
                      /\ new[Len(old) + i].term = terms[i]
                      /\ new[Len(old) + i].results \in SearchResults
                /\ last_action' = Some("search_done") ]_vars

\* a second batch of two terms has been appended after the first
C16_Witness ==
    /\ node = "research" /\ phase = "prep"
    /\ last_action = Some("search_done")
    /\ shared["search_terms"] = <<"t1", "t2">>
    /\ Len(shared["context"]) = 4
    /\ shared["context"][3].term = "t1"
    /\ shared["context"][4].term = "t2"

(* C17 *)
\* the two dicts agree on every key but k
SameBut(d1, d2, k) ==
    /\ DOMAIN d1 \ {k} = DOMAIN d2 \ {k}
    /\ \A x \in DOMAIN d1 \ {k} : d1[x] = d2[x]

\* C17: the decision node's post changes the shared dict only so: when it
\* returns search it sets search_terms and nothing else, when it returns
\* generate it sets current_section and nothing else, when it returns complete
\* it changes nothing; context, generated_sections and report are never
\* changed by it.
C17_DecisionPostFrame ==
    [][ (node = "research" /\ phase = "post") =>
            /\ last_action' \in {Some("search"), Some("generate"), Some("complete")}
            /\ last_action' = Some("search") =>
                    /\ SameBut(shared', shared, "search_terms")
                    /\ "search_terms" \in DOMAIN shared'
            /\ last_action' = Some("generate") =>
                    /\ SameBut(shared', shared, "current_section")
                    /\ "current_section" \in DOMAIN shared'
            /\ last_action' = Some("complete") => shared' = shared
            /\ \A k \in {"context", "generated_sections", "report"} :
                    SameAt(shared', shared, k) ]_vars

\* a search decision was stored while a section and a context were there
C17_Witness ==
    /\ node = "search" /\ phase = "prep"
    /\ last_action = Some("search")
    /\ shared["search_terms"] = <<"t1", "t2">>
    /\ "current_section" \in DOMAIN shared
    /\ Len(generated_sections) >= 1
    /\ Len(Get(shared, "context", <<>>)) >= 2

(* C18 *)
\* C18: in each of the four nodes the prep and the exec phase leave the shared
\* dict as it is; the shared dict changes only in a post phase.
C18_OnlyPostWrites ==
    [][ /\ phase \in {"prep", "exec"} => shared' = shared
        /\ shared' # shared =>
              /\ phase = "post"
              /\ node \in {"research", "search", "generate", "complete"} ]_vars

\* an exec has produced a section that the shared dict does not hold yet
C18_Witness ==
    /\ node = "generate" /\ phase = "post"
    /\ Len(generated_sections) >= 1
    /\ exec_res.name \notin SeqToSet(NamesOf(generated_sections))
    /\ exec_res.name = shared["current_section"]["name"]

(* C19 *)
\* report is set in the next state and was not, or was another text
ReportWritten ==
    /\ "report" \in DOMAIN shared'
    /\ "report" \in DOMAIN shared => shared'["report"] # shared["report"]

\* C19: the completion node is terminal: no transition is declared for what
\* its post returns, so the run ends with it and no node runs afterwards;
\* report is written only by the completion node's post, at most once in a
\* run, and is the document text the run returns.
C19_CompletionIsTerminal ==
    [][ /\ DOMAIN successors["complete"] = {}
        /\ (node = "complete" /\ phase = "post") =>
              /\ node' = "complete" /\ phase' = "done"
              /\ "report" \in DOMAIN shared'
              /\ last_action' = Some(shared'["report"])
              /\ shared'["report"] = exec_res.content
        /\ ~(node = "complete" /\ phase = "done")
        /\ ReportWritten =>
              /\ node = "complete" /\ phase = "post"
              /\ "report" \notin DOMAIN shared
        /\ "report" \in DOMAIN shared => "report" \in DOMAIN shared' ]_vars

\* a run has ended in the completion node with three sections in its document
C19_Witness ==
    /\ node = "complete" /\ phase = "done"
    /\ Len(generated_sections) = 3
    /\ shared["report"] = exec_res.content
    /\ last_action = Some(exec_res.content)
    /\ prep_res.sections = generated_sections

(* C20 *)
IsMarker(token) == token \in {Fence, FenceYaml}

\* tokens i and j of the text are the opening and the closing marker of a
\* fenced block: no marker lies between them
Block(text, i, j) ==
    /\ i < j
    /\ IsMarker(text[i]) /\ IsMarker(text[j])
    /\ \A k \in (i + 1)..(j - 1) : ~IsMarker(text[k])

ContentOf(text, i, j) == Strip(SubSeq(text, i + 1, j - 1))

\* C20: parse_yaml_response selects the text to parse in this order of
\* preference: the content of the (first) block fenced with ```yaml when the
\* response has one; otherwise the content of the first fenced block when the
\* response has one; otherwise the whole response, trimmed.
C20_PreferenceOrder ==
    (node = "parse_yaml_response" /\ phase = "return") =>
        LET text == resp.text
            n == Len(text)
            selected == exec_res.yaml_content
        IN  /\ \A i, j \in 1..n :
                  (/\ Block(text, i, j)
                   /\ text[i] = FenceYaml
                   /\ \A k \in 1..(i - 1) : text[k] # FenceYaml)
                      => selected = ContentOf(text, i, j)
            /\ \A i, j \in 1..n :
                  (/\ Block(text, i, j)
                   /\ \A k \in 1..n : text[k] # FenceYaml
                   /\ \A k \in 1..(i - 1) : ~IsMarker(text[k]))
                      => selected = ContentOf(text, i, j)
            /\ (\A k \in 1..n : ~IsMarker(text[k])) => selected = Strip(text)

\* an empty unlabeled block comes before a block labeled yaml
C20_Witness ==
    /\ node = "parse_yaml_response" /\ phase = "return"
    /\ resp.text = <<Fence, Fence, FenceYaml, Blank, "a", Fence>>
    /\ exec_res.yaml_content = <<"a">>

(* C21 *)
\* A count of the decision node invocations of the run that have begun, from
\* below: every entry of generated_sections was appended by a generate node
\* execution and every batch for the first term of a search by a search node
\* execution, each of which followed a decision invocation of its own; one
\* more invocation is under way while the decision node is past its prep.
DecisionInvocations ==
    Len(generated_sections)
    + Cardinality({i \in 1..Len(Get(shared, "context", <<>>)) :
                        shared["context"][i].term = "t1"})
    + (IF node = "research" /\ phase \in {"exec", "post", "error"} THEN 1 ELSE 0)

\* C21: the number of decision node invocations of a run never exceeds
\* max_iterations (10 by default, kept in the shared dict).
C21_IterationsBounded ==
    DecisionInvocations <= shared["max_iterations"]

(* C22 *)
\* the client call itself failed, or its response could not be read
ClientFailed == prep_res.client.kind \in {"raise", "no_choices"}

\* C22: none of the helpers call_llm, LLMHelper.call, ask, async_call and
\* async_ask raises to its caller: for every outcome of the client each
\* returns a value, and when the client call fails that value is "".
C22_HelpersNeverRaise ==
    node \in Helpers =>
        /\ phase # "raise"
        /\ (phase = "return" /\ ClientFailed) => exec_res.value = StrVal(<<>>)

\* the synchronous helper has returned "" after the client raised inside the
\* thread it started
C22_Witness ==
    /\ node = "call" /\ phase = "return"
    /\ prep_res.client.kind = "raise"
    /\ prep_res.loop = "thread"
    /\ exec_res.value = StrVal(<<>>)

(* C23 *)
\* the checklist entries that are not among the names, in checklist order
RECURSIVE MissingFrom(_, _)
MissingFrom(names, i) ==
    IF i > Len(important_sections) THEN <<>>
    ELSE (IF important_sections[i] \in SeqToSet(names)
          THEN <<>> ELSE <<important_sections[i]>>)
         \o MissingFrom(names, i + 1)

\* generated_sections is the list g0 the phase began with, followed by the
\* first k checklist entries that g0 lacked, in checklist order
GrownFrom(g0, k) ==
    /\ Len(generated_sections) = Len(g0) + k
    /\ SubSeq(generated_sections, 1, Len(g0)) = g0
    /\ NamesOf(generated_sections) =
          NamesOf(g0) \o SubSeq(MissingFrom(NamesOf(g0), 1), 1, k)

\* C23: when from a decision node invocation on every model response is a
\* generate decision for a section already generated, every such invocation
\* returns generate for a checklist entry not generated yet (the first one)
\* or complete; the sections added are the checklist entries that were
\* missing, in checklist order, at most 7 of them; and the decision node ends
\* up returning complete, after which the run ends with all of them generated.
C23_DuplicatesMakeProgress ==
    /\ []( DecisionReturned =>
             \/ /\ exec_res.action = "complete"
                /\ Checklist \subseteq GivenNames
             \/ /\ exec_res.action = "generate"
                /\ exec_res.section.d.name \in Checklist \ GivenNames
                /\ exec_res.section.d.name =
                      Head(MissingFrom(prep_res.generated_section_names, 1)) )
    /\ []( \E g0 \in DupStartSections :
             \E k \in 0..Len(MissingFrom(NamesOf(g0), 1)) :
                /\ k <= 7
                /\ GrownFrom(g0, k) )
    /\ <>( /\ node = "complete" /\ phase = "done"
           /\ \E g0 \in DupStartSections :
                 GrownFrom(g0, Len(MissingFrom(NamesOf(g0), 1))) )

\* five checklist entries were added, in checklist order, after two sections
\* generated out of that order
C23_Witness ==
    /\ node = "complete" /\ phase = "done"
    /\ NamesOf(generated_sections) =
          <<"Outlook", "Competition", "IndustryOverview", "MarketSize",
            "TechTrends", "Policy", "Risks">>
    /\ last_action = Some(shared["report"])

(* C24 *)
\* C24: the decision node calls the model once per loop iteration and leaves
\* the loop with the first response whose action, repaired or not, is search,
\* generate or complete (a duplicate-section repair costs no further call, a
\* response that cannot be parsed counts as complete); it stays in the loop
\* for another call only when the parsed action is outside these three.
\* (loop_count changes exactly in the steps that call the model.)
C24_LeavesLoopAtOnce ==
    [][ (node = "research" /\ phase = "exec" /\ loop_count' # loop_count) =>
            /\ loop_count' = loop_count + 1
            /\ (RespUnparsable' \/
                 (RespIsDecision' /\
                    resp'.body.m.action \in {"search", "generate", "complete"}))
                  => phase' # "exec"
            /\ (RespNamesSection' /\ RespSectionName' \in GivenNames)
                  => phase' = "post" /\ exec_res'.action \in {"generate", "complete"}
            /\ phase' = "exec"
                  => /\ RespIsDecision'
                     /\ resp'.body.m.action \notin {"search", "generate", "complete"} ]_vars

\* an invocation has returned a repaired duplicate after a single model call
C24_Witness ==
    /\ DecisionReturned
    /\ loop_count = 1
    /\ RespNamesSection /\ RespSectionName \in GivenNames
    /\ exec_res.action = "generate"
    /\ exec_res.section.d.name # RespSectionName

(* C25 *)
\* C25: every label the decision node's post returns is search, generate or
\* complete, and a transition is declared for each of them; so a run that ends
\* without an exception never halts at the decision, search or section node:
\* it ends after the completion node has run, with report set.
C25_EndsOnlyAtCompletion ==
    /\ DecisionReturned =>
          /\ DecisionLabel \in {"search", "generate", "complete"}
          /\ DecisionLabel \in DOMAIN successors["research"]
    /\ (node = "research" /\ last_action # None /\ phase = "prep") =>
          last_action \in {Some("search_done"), Some("continue")}
    /\ phase = "done" =>
          /\ node = "complete"
          /\ exec_res = CompleteExecResult(prep_res.industry, prep_res.sections)
          /\ "report" \in DOMAIN shared
          /\ shared["report"] = exec_res.content

\* a run that searched and wrote a section has ended in the completion node
C25_Witness ==
    /\ node = "complete" /\ phase = "done"
    /\ Len(Get(shared, "context", <<>>)) >= 2
    /\ Len(generated_sections) >= 1
    /\ "report" \in DOMAIN shared

(* C26 *)
\* C26: whenever the decision node returns the label generate, current_section
\* is a record with a name that no entry of generated_sections has; so every
\* section node execution of the workflow appends exactly one entry, the
\* section it was asked for (its dedup guard never fires), and the placeholder
\* section of the format-error branch is never appended.
C26_GenerateIsAlwaysNew ==
    [][ /\ (node = "research" /\ last_action' = Some("generate")) =>
              /\ node' = "generate"
              /\ "current_section" \in DOMAIN shared'
              /\ "name" \in DOMAIN shared'["current_section"]
              /\ shared'["current_section"]["name"]
                    \notin SeqToSet(NamesOf(Get(shared', "generated_sections", <<>>)))
        /\ (node = "generate" /\ phase = "post") =>
              /\ exec_res.name = shared["current_section"]["name"]
              /\ exec_res.name # ErrorSectionName
              /\ Get(shared', "generated_sections", <<>>)
                    = Append(generated_sections, exec_res)
        /\ ErrorSectionName
              \notin SeqToSet(NamesOf(Get(shared', "generated_sections", <<>>))) ]_vars

\* a third section, one that is not on the checklist, has been appended
C26_Witness ==
    /\ node = "research" /\ phase = "prep"
    /\ last_action = Some("continue")
    /\ Len(generated_sections) = 3
    /\ generated_sections[3].name = "CustomTopic"
    /\ shared["current_section"] = [name |-> "CustomTopic", focus |-> LLMFocus]
    /\ Cardinality(SeqToSet(NamesOf(generated_sections))) = 3

(* C27 *)
\* sequence s is a prefix of sequence t
IsPrefix(s, t) == Len(s) <= Len(t) /\ SubSeq(t, 1, Len(s)) = s

\* C27: in every step of a run the context before the step is a prefix of
\* the context after it, and so for generated_sections (no entry is removed,
\* reordered or overwritten); context changes only in the search node's post
\* and generated_sections only in the section node's post.
C27_AppendOnly ==
    [][ LET context == Get(shared, "context", <<>>)
            context_after == Get(shared', "context", <<>>)
            sections_after == Get(shared', "generated_sections", <<>>)
        IN  /\ IsPrefix(context, context_after)
            /\ IsPrefix(generated_sections, sections_after)
            /\ context_after # context => node = "search" /\ phase = "post"
            /\ sections_after # generated_sections
                  => node = "generate" /\ phase = "post"
            /\ ("context" \in DOMAIN shared) # ("context" \in DOMAIN shared')
                  => node = "search" /\ phase = "post"
            /\ ("generated_sections" \in DOMAIN shared)
                    # ("generated_sections" \in DOMAIN shared')
                  => node = "generate" /\ phase = "post" ]_vars

\* both lists have grown twice, a search coming after two sections
C27_Witness ==
    /\ node = "research" /\ phase = "prep"
    /\ last_action = Some("search_done")
    /\ Len(Get(shared, "context", <<>>)) = 4
    /\ shared["context"][1].results = <<>>
    /\ shared["context"][3].results = <<"hit">>
    /\ Len(generated_sections) = 2
    /\ generated_sections[1].name = "CustomTopic"

(* C28 *)
\* the positions of generated_sections that hold a section with empty content,
\* which is what call_llm's "" for a failed call gives
EmptySections == {i \in 1..Len(generated_sections) : generated_sections[i].content = ""}

\* C28: when the model call fails during a section node execution, the section
\* is appended all the same, with empty content; from then on its name counts
\* as generated: no later decision asks the section node for it, and no later
\* step replaces the entry or adds another one of that name.
C28_FailedSectionStays ==
    /\ [][ (node = "generate" /\ phase = "post" /\ exec_res.content = "") =>
                Get(shared', "generated_sections", <<>>)
                    = Append(generated_sections,
                             [name |-> shared["current_section"]["name"],
                              content |-> ""]) ]_vars
    /\ [][ \A i \in EmptySections :
                LET after == Get(shared', "generated_sections", <<>>) IN
                /\ Len(after) >= i
                /\ after[i] = generated_sections[i]
                /\ \A j \in 1..Len(after) :
                      after[j].name = generated_sections[i].name => j = i ]_vars
    /\ [](\A i \in EmptySections :
              /\ node = "generate" =>
                    shared["current_section"]["name"] # generated_sections[i].name
              /\ (DecisionReturned /\ exec_res.action = "generate"
                                    /\ IsDict(exec_res.section)) =>
                    /\ generated_sections[i].name \in GivenNames
                    /\ exec_res.section.d.name # generated_sections[i].name)

\* the model asked again for the section whose generation had failed, and the
\* decision node asked for another one in its place
C28_Witness ==
    /\ DecisionReturned
    /\ Len(generated_sections) >= 2
    /\ generated_sections[1] = [name |-> "CustomTopic", content |-> ""]
    /\ RespNamesSection /\ RespSectionName = "CustomTopic"
    /\ exec_res.action = "generate"
    /\ exec_res.section.d.name # "CustomTopic"

(* C29 *)
\* C29: when the decision is search and its search_terms value is not a list,
\* the decision node's post returns complete (the completion node runs next,
\* not the search node) and leaves search_terms in the shared dict as it was;
\* when the decision has no search_terms, the post stores the empty list and
\* returns search.
C29_SearchTermsShape ==
    [][ (node = "research" /\ phase = "post" /\ exec_res.action = "search") =>
            /\ ("search_terms" \in DOMAIN exec_res
                    /\ ~IsList(exec_res.search_terms)) =>
                  /\ last_action' = Some("complete")
                  /\ node' = "complete" /\ phase' = "prep"
                  /\ SameAt(shared', shared, "search_terms")
            /\ "search_terms" \notin DOMAIN exec_res =>
                  /\ last_action' = Some("search")
                  /\ node' = "search" /\ phase' = "prep"
                  /\ "search_terms" \in DOMAIN shared'
                  /\ shared'["search_terms"] = <<>> ]_vars

\* a search decision whose terms are one string came after a search over two
\* terms: the completion node runs next and the stored terms are those two
C29_Witness ==
    /\ node = "complete" /\ phase = "prep"
    /\ last_action = Some("complete")
    /\ DOMAIN exec_res = {"action", "reason", "search_terms"}
    /\ exec_res.action = "search"
    /\ exec_res.search_terms = StrVal(<<"t1">>)
    /\ Get(shared, "search_terms", <<>>) = <<"t1", "t2">>

(* C30 *)
ParseEnded == node = "parse_yaml_response" /\ phase \in {"return", "raise"}

\* C30: parse_yaml_response never raises and always returns a mapping, for
\* every response text: the empty text, an empty fenced block and a block
\* whose YAML is a scalar included.
C30_AlwaysMapping ==
    ParseEnded =>
        /\ phase = "return"
        /\ IsDict(exec_res.value)

(* C31 *)
\* the token that opens the block parse_yaml_response reads: the first marker
\* labeled yaml when there is one, otherwise the first marker; 0 without one
OpeningMarker(text) ==
    IF \E i \in 1..Len(text) : text[i] = FenceYaml
    THEN Find(text, {FenceYaml}, 1)
    ELSE Find(text, {Fence, FenceYaml}, 1)

\* C31: for a response with an opening fence marker, the text parsed is
\* (trimmed) the text between the end of that marker and the next marker,
\* and, when no marker follows, the whole remainder of the response after the
\* opening marker, no character of it dropped.
C31_WholeRemainder ==
    (node = "parse_yaml_response" /\ phase = "return"
        /\ OpeningMarker(resp.text) # 0) =>
        LET text == resp.text
            m == OpeningMarker(text)
            closing == {j \in (m + 1)..Len(text) : IsMarker(text[j])}
        IN  /\ \A j \in closing :
                  (\A k \in closing : j <= k)
                      => exec_res.yaml_content = Strip(SubSeq(text, m + 1, j - 1))
            /\ closing = {}
                  => exec_res.yaml_content = Strip(SubSeq(text, m + 1, Len(text)))

(* C32 *)
\* what the worker thread produces for the inputs of the call
WorkerValue ==
    IF node = "ask" THEN async_ask(prep_res.client).value
    ELSE async_call(prep_res.client, prep_res.log_ok).value

\* C32: on the worker-thread path LLMHelper.ask and LLMHelper.call return only
\* after the worker has finished; the value returned is the value the worker
\* produced, or "" when the worker raised; and one call never has two worker
\* threads (it starts one, and only one runs at any time).
C32_CallBlocks ==
    (node \in {"ask", "call"} /\ "thread" \in DOMAIN shared) =>
        /\ loop_count <= 1
        /\ shared["thread"] # "unstarted" => loop_count = 1
        /\ phase = "return" =>
              /\ shared["thread"] = "finished"
              /\ exec_res.value =
                    (IF prep_res.fault = "none" THEN WorkerValue ELSE StrVal(<<>>))

\* the call has returned the text the worker got from the model
C32_Witness ==
    /\ node = "call" /\ phase = "return"
    /\ "thread" \in DOMAIN shared
    /\ shared["thread"] = "finished"
    /\ prep_res.fault = "none"
    /\ prep_res.client = [kind |-> "text", text |-> <<"a">>]
    /\ exec_res.value = StrVal(<<"a">>)

(* C33 *)
\* generate_report_content_1 has returned its list
ContentReturned == node = "generate_report" /\ "report_text_list" \in DOMAIN shared

\* C33: generate_report_content_1 (use_template false) returns a list with
\* exactly one entry per part of the outline, in the order of the outline:
\* the title line for a part that has sub-nodes, the generated content of the
\* part otherwise.
C33_OneEntryPerPart ==
    ContentReturned =>
        LET outline == shared["report_outline"]
            texts == shared["report_text_list"]
        IN  /\ Len(texts) = Len(outline)
            /\ \A i \in 1..Len(outline) :
                  /\ texts[i].part = outline[i]
                  /\ texts[i].kind =
                        (IF outline[i].part_title = "branch" THEN "title" ELSE "content")

\* the list returned for an outline of a part with sub-nodes and one without
C33_Witness ==
    /\ ContentReturned
    /\ phase = "abstract"
    /\ Len(shared["report_outline"]) = 2
    /\ shared["report_outline"][1].part_title = "branch"
    /\ shared["report_outline"][2].part_title = "leaf"
    /\ shared["report_text_list"][1].kind = "title"
    /\ shared["report_text_list"][2].kind = "content"

(* C34 *)
\* the agent calls of a discussion of two rounds
OutlineDiscussion == <<"outline_opinion", "outline", "outline_opinion", "outline">>
SectionDiscussion ==
    <<"section_opinion", "section_edit", "section_opinion", "section_edit">>

\* the agent calls for the parts of an outline from part i on
RECURSIVE SectionCalls(_, _)
SectionCalls(outline, i) ==
    IF i > Len(outline) THEN <<>>
    ELSE (IF outline[i].part_title = "branch" THEN <<>> ELSE SectionDiscussion)
         \o SectionCalls(outline, i + 1)

\* C34: each discussion runs exactly 2 rounds whatever
\* config.max_discuss_rounds is: the outline is generated by outline-opinion
\* agent then outline agent, twice, in strict alternation; each part without
\* sub-nodes by section-opinion agent then section-edit agent, twice, in
\* strict alternation, the opinion being stored before the edit call; the
\* outline and the content kept are those of the second round.
C34_TwoRounds ==
    node = "generate_report" =>
        LET expected ==
                OutlineDiscussion
                \o (IF "report_outline" \in DOMAIN shared
                    THEN SectionCalls(shared["report_outline"], 1) \o <<"abstract">>
                    ELSE <<>>)
        IN  /\ Len(resp.calls) <= Len(expected)
            /\ \A i \in 1..Len(resp.calls) : resp.calls[i] = expected[i]
            /\ phase = "outline_done" =>
                  /\ resp.calls = OutlineDiscussion
                  /\ shared["parts"] = prep_res.outline2
            /\ "report_outline" \in DOMAIN shared =>
                  shared["report_outline"] = prep_res.outline2
            /\ phase = "section_edit" =>
                  shared["opinion"] = Some([idx |-> shared["idx"],
                                            round |-> loop_count + 1])
            /\ \A i \in 1..Len(shared["report_content"]) :
                  shared["report_content"][i].kind = "content" =>
                      /\ shared["report_content"][i].round = 2
                      /\ shared["report_content"][i].opinion
                            = Some([idx |-> i, round |-> 2])
            /\ phase = "abstract" =>
                  resp.calls = OutlineDiscussion
                               \o SectionCalls(shared["report_outline"], 1)

\* with max_discuss_rounds 1 a part has been written in two rounds
C34_Witness ==
    /\ node = "generate_report" /\ phase = "part"
    /\ prep_res.max_discuss_rounds = 1
    /\ Len(shared["report_content"]) = 1
    /\ shared["report_content"][1].kind = "content"
    /\ shared["report_content"][1].round = 2
    /\ resp.calls = OutlineDiscussion \o SectionDiscussion

(* C35 *)
\* agent setup, outline generation and full-report generation have succeeded
\* and generate_report has returned
ReportGenerated ==
    /\ node = "generate_report" /\ phase = "returned"
    /\ "final_report" \in DOMAIN shared

\* C35: whenever agent setup, outline generation and full-report generation
\* all succeed, generate_report writes the final report text to
\* Company_Research_Report.md and returns that file name, whether or not a
\* file of that name exists before the call.
C35_ReportSaved ==
    ReportGenerated =>
        /\ output_file \in DOMAIN shared["files"]
        /\ shared["files"][output_file] = shared["final_report"]
        /\ exec_res.value = StrVal(<<output_file>>)

(* C36 *)
\* C36: the batch runner runs the scripts one after another in list order
\* (company, industry, macro), never two at once; a script that is missing,
\* exits with a non-zero code or raises does not stop the runner: every later
\* script of the list is still attempted.
C36_AllScriptsInOrder ==
    node = "main" =>
        /\ Cardinality(shared["running"]) <= 1
        /\ Len(shared["done"]) <= Len(scripts)
        /\ \A i \in 1..Len(shared["done"]) :
              /\ shared["done"][i].script = scripts[i]
              /\ shared["done"][i].outcome =
                    (CASE prep_res[i] = "missing" -> "missing"
                       [] prep_res[i] = "raises"  -> "raised"
                       [] prep_res[i] = "fails"   -> "exit 1"
                       [] OTHER                   -> "exit 0")
        /\ \A name \in shared["running"] :
              name = scripts[Len(shared["done"]) + 1]
        /\ phase = "done" =>
              /\ Len(shared["done"]) = Len(scripts)
              /\ shared["running"] = {}

\* the runner has ended after a failing, a raising and a missing script
C36_Witness ==
    /\ node = "main" /\ phase = "done"
    /\ prep_res = <<"fails", "raises", "missing">>
    /\ Len(shared["done"]) = 3

(* C37 *)
\* the decision node has returned generate with a non-empty list as section
ListSectionReturned ==
    /\ DecisionReturned
    /\ exec_res.action = "generate"
    /\ IsList(Get(exec_res, "section", Dict(EmptyDict)))
    /\ Len(Get(exec_res, "section", Dict(EmptyDict)).items) > 0

\* the elements of the returned list that are records with a name that no
\* generated section has
Qualifying ==
    LET section == Get(exec_res, "section", Dict(EmptyDict)) IN
    {i \in 1..Len(section.items) :
        /\ IsDict(section.items[i])
        /\ "name" \in DOMAIN section.items[i].d
        /\ section.items[i].d.name \notin SeqToSet(NamesOf(generated_sections))}

\* first half of C37: post, given generate with a non-empty list, stores the
\* first qualifying element as current_section and returns generate; without
\* one it returns complete and leaves current_section as it was.
C37_ListBranch ==
    [][ ListSectionReturned =>
            IF Qualifying # {}
            THEN /\ last_action' = Some("generate")
                 /\ \E i \in Qualifying :
                       /\ \A j \in Qualifying : i <= j
                       /\ shared'["current_section"]
                             = exec_res.section.items[i].d
            ELSE /\ last_action' = Some("complete")
                 /\ SameAt(shared', shared, "current_section") ]_vars

\* C37: within a workflow run the list branch of the decision node's post is
\* never taken: exec never returns action generate with a list as section.
C37_ListBranchNeverTaken ==
    (DecisionReturned /\ exec_res.action = "generate")
        => ~IsList(Get(exec_res, "section", Dict(EmptyDict)))

====
